---- MODULE Spec2Model ----
(***************************************************************************)
(* CogniSync behavioural engine: score derivation, alert detection, the    *)
(* rolling state memory and the psychology fallback selector with its      *)
(* per-key rotation (backend/main.py, backend/reasoning.py).               *)
(*                                                                         *)
(* Conventions of the model                                                *)
(*  - Python None is the empty tuple <<>> where a key is expected and the  *)
(*    string NoneStr where a text is expected.                             *)
(*  - A catalog key is a tuple: a TacticKey is the 4-tuple                 *)
(*    <<emotion, attention, stressZone, engagementZone>>, a crisis tag is  *)
(*    the 1-tuple <<"__tag__">> (the source uses a bare string).           *)
(*  - Every text of the catalog and of the default pool is abbreviated to  *)
(*    its first words (non-ASCII characters dropped); the abbreviations    *)
(*    are pairwise distinct, as the texts are.                             *)
(*  - All scores produced by compute_scores are whole numbers, so scores   *)
(*    are integers; a comparison with a mean is cross-multiplied.          *)
(***************************************************************************)
EXTENDS Integers, Sequences, FiniteSets, TLC

VARIABLES
    state_memory,      \* main.py: the rolling list of scored snapshots
    _last_key,         \* reasoning.py: _last_key[0]
    _key_hit_counts,   \* reasoning.py: dict key -> consecutive hits
    _default_idx,      \* reasoning.py: _default_idx[0]
    LLM_PROVIDER,      \* reasoning.py: set from the environment at import
    obs,               \* observer: the last completed call, its arguments and result
    req,               \* main.py: the analyze calls in progress, by slot, with their locals
    ready,             \* asyncio: the suspended calls whose awaited thread returned, in order
    running,           \* asyncio: the call the event loop is executing, or "none"
    appends,           \* observer: how many snapshots were appended so far
    rot_owner          \* observer: the session whose call last wrote _key_hit_counts

vars == <<state_memory, _last_key, _key_hit_counts, _default_idx, LLM_PROVIDER, obs,
          req, ready, running, appends, rot_owner>>

\* what the direct calls of the engine leave alone
requests == <<req, ready, running, appends, rot_owner>>

(***************************************************************************)
(* Bounds of the model.                                                    *)
(***************************************************************************)
\* longest run of consecutive calls with one key that the tracker model follows
MaxHits == 13

(***************************************************************************)
(* Program constants and the content catalog.                              *)
(***************************************************************************)
ROTATION_EVERY == 4

NoneKey == <<>>
NoneStr == "<None>"

TACTICS ==
       (<<"neutral", "low", "low", "low">> :> <<
            "Gaze drifted + engagement",
            "Still disengaged after the",
            "Prolonged disengagement with calm">>)
    @@ (<<"neutral", "low", "mid", "low">> :> <<
            "Attention lost under stress",
            "Still distracted under stress.",
            "Sustained stress-distraction. Name it">>)
    @@ (<<"neutral", "low", "low", "mid">> :> <<
            "Mild attention drift. Deploy",
            "Still wandering. Introduce a",
            "Try an information gap">>)
    @@ (<<"neutral", "low", "mid", "mid">> :> <<
            "Attention fracturing under moderate",
            "Still split-attention. Strip your",
            "Still distracted. Reframe by">>)
    @@ (<<"neutral", "high", "low", "high">> :> <<
            "Peak analytical state -",
            "Still in analytical mode.",
            "Sustained high focus. Deploy">>)
    @@ (<<"neutral", "high", "low", "mid">> :> <<
            "Low stress, high attention",
            "Still focused and calm.",
            "Sustained attentive baseline. Introduce">>)
    @@ (<<"neutral", "medium", "low", "high">> :> <<
            "Good engagement with calm",
            "Sustained high engagement. Use",
            "Long-duration high-engagement state. Ask">>)
    @@ (<<"neutral", "medium", "low", "mid">> :> <<
            "Stable moderate engagement -",
            "Continued stable baseline. Ask:",
            "Sustained stable state. Deploy">>)
    @@ (<<"neutral", "medium", "mid", "mid">> :> <<
            "Moderate stress with partial",
            "Continued mid-stress. Use a",
            "Persisting mid-stress. Try reframing">>)
    @@ (<<"neutral", "high", "mid", "high">> :> <<
            "High attention + rising",
            "High engagement under moderate",
            "Sustained stress under high">>)
    @@ (<<"happy", "high", "low", "high">> :> <<
            "Buying signal - smile,",
            "Still at peak positive",
            "Sustained happiness + high">>)
    @@ (<<"happy", "high", "low", "mid">> :> <<
            "Positive affect + focused",
            "Still at likability peak.",
            "Sustained positive engagement. Tell">>)
    @@ (<<"happy", "medium", "low", "high">> :> <<
            "Relaxed happiness + high",
            "Positive state, moderate attention.",
            "Sustained positive state. Use">>)
    @@ (<<"happy", "high", "mid", "high">> :> <<
            "Joy + slight stress",
            "Continued positive arousal. Use",
            "Sustained excited state. Connect">>)
    @@ (<<"surprised", "high", "low", "high">> :> <<
            "Peak curiosity window -",
            "Still in curiosity state.",
            "Sustained surprise = genuine">>)
    @@ (<<"surprised", "high", "mid", "mid">> :> <<
            "Surprise + moderate stress",
            "Still processing. Ask: 'What",
            "Continued surprise-processing. Use an">>)
    @@ (<<"surprised", "medium", "mid", "mid">> :> <<
            "Mild surprise with moderate",
            "Still processing mildly. Ask:",
            "Sustained mild surprise. Introduce">>)
    @@ (<<"fearful", "low", "high", "low">> :> <<
            "Fight-or-flight activated - body",
            "Still in fear state",
            "Prolonged fear. Match your">>)
    @@ (<<"fearful", "medium", "high", "low">> :> <<
            "Stress flooding with partial",
            "Fear persisting. Label the",
            "Sustained fear-partial-attention mix. Validate">>)
    @@ (<<"fearful", "low", "high", "mid">> :> <<
            "Fear state with moderate",
            "Still fearful but engaged.",
            "Prolonged fear-engagement mix. Ask:">>)
    @@ (<<"fearful", "medium", "mid", "mid">> :> <<
            "Mild anxiety - this",
            "Continued mild anxiety. Introduce",
            "Persistent low-grade anxiety. Ask:">>)
    @@ (<<"angry", "medium", "high", "low">> :> <<
            "Anger spike - jaw",
            "Anger persisting. Use minimal",
            "Sustained anger + low">>)
    @@ (<<"angry", "low", "high", "low">> :> <<
            "Hot anger + disengagement",
            "Still angry and gone.",
            "Prolonged anger-disengagement. Give them">>)
    @@ (<<"angry", "medium", "high", "mid">> :> <<
            "Irritation + partial engagement",
            "Still irritated but present.",
            "Continued irritation-engagement mix. Ask:">>)
    @@ (<<"angry", "high", "mid", "mid">> :> <<
            "Agitation + attention still",
            "Continued engagement under agitation.",
            "Sustained engaged-agitation. Give them">>)
    @@ (<<"sad", "low", "low", "low">> :> <<
            "Withdrawal state - low",
            "Still withdrawn. Ask for",
            "Prolonged withdrawal. Introduce possibility">>)
    @@ (<<"sad", "medium", "low", "low">> :> <<
            "Mild sadness with partial",
            "Continued sad-partial engagement. Deepen",
            "Sustained ambivalent-sad state. Use the miracle question: 'If you woke up tomorrow">>)
    @@ (<<"sad", "low", "mid", "low">> :> <<
            "Subdued affect signaling low",
            "Still subdued. Introduce possibility:",
            "Prolonged subdued state. Ask">>)
    @@ (<<"sad", "medium", "mid", "mid">> :> <<
            "Sadness + moderate engagement",
            "Persistent sadness with partial",
            "Sustained ambivalent-sad state. Use the miracle question: 'If you woke up and">>)
    @@ (<<"disgusted", "low", "mid", "low">> :> <<
            "Value mismatch - micro-disgust",
            "Value mismatch persisting. Don't",
            "Persistent value misalignment. Use">>)
    @@ (<<"disgusted", "medium", "mid", "mid">> :> <<
            "Subtle rejection - framing",
            "Continued value friction. Use",
            "Sustained misalignment. Find ONE">>)
    @@ (<<"__engagement_drop__">> :> <<
            "Engagement dropping fast. Pattern",
            "Engagement still falling. Abandon",
            "Engagement collapse continuing. Radical">>)
    @@ (<<"__stress_spike__">> :> <<
            "Stress cascading across all",
            "Stress still elevated. Remove",
            "Sustained stress spike. Use">>)
    @@ (<<"__inconsistency__">> :> <<
            "Mixed signals - smiling",
            "Behavioral inconsistency persisting. Ask:",
            "Continued signal contradiction. Try">>)
    @@ (<<"__attention_lost__">> :> <<
            "Attention has left -",
            "Still disengaged. Full pattern",
            "Prolonged disengagement. This conversation">>)

_default_pool ==
    << "Stable baseline - all",
       "Neutral baseline. Use the",
       "Stable environment. Plant a",
       "Baseline stable. Apply Cialdini's",
       "Consistent stable signals. Use",
       "Clean baseline. Use behavioral",
       "Signals stable. Deploy an",
       "Sustained neutral. Ask a" >>

FLOW_MESSAGE == "You're in the 'flow"

(***************************************************************************)
(* dict helpers: .get(key, default), .pop(key, None), d[key] = v           *)
(***************************************************************************)
DictGet(d, k, default) == IF k \in DOMAIN d THEN d[k] ELSE default

DictPop(d, k) == [x \in (DOMAIN d) \ {k} |-> d[x]]

DictPut(d, k, v) == [x \in (DOMAIN d) \cup {k} |-> IF x = k THEN v ELSE d[x]]

EmptyDict == [x \in {} |-> 0]

(***************************************************************************)
(* _get_tactic(key): the rotation step, run without interruption.          *)
(* Result: the new _last_key, the new _key_hit_counts, the hit count read  *)
(* and the text returned (NoneStr when the key is not in the catalog).     *)
(***************************************************************************)
\* variant: the index taken from the count after its increment
TacticEntryText_AfterIncrement(entry, hits) ==
    entry[(((hits + 1) \div ROTATION_EVERY) % Len(entry)) + 1]

\* variant: the index taken from the number of calls made so far
TacticEntryText_ByCallCount(entry, hits) ==
    entry[((IF obs.op = "none" THEN 0 ELSE obs.calls) % Len(entry)) + 1]

TacticEntryText(entry, hits) == entry[((hits \div ROTATION_EVERY) % Len(entry)) + 1]

\* variant: the previous key's counter is kept when the key changes
_get_tactic_NoReset(key, lk, hc) ==
    LET hits == DictGet(hc, key, 0)
    IN  [ last_key |-> key,
          hit_counts |-> DictPut(hc, key, hits + 1),
          hits |-> hits,
          result |-> IF key \in DOMAIN TACTICS
                     THEN TacticEntryText(TACTICS[key], hits)
                     ELSE NoneStr ]

\* variant: a key the catalog lacks leaves the last key and the counters alone
_get_tactic_SkipMissing(key, lk, hc) ==
    IF key \notin DOMAIN TACTICS
    THEN [ last_key |-> lk, hit_counts |-> hc, hits |-> 0, result |-> NoneStr ]
    ELSE LET switched == lk # key
             hc1  == IF switched /\ lk # NoneKey THEN DictPop(hc, lk) ELSE hc
             lk1  == IF switched THEN key ELSE lk
             hits == DictGet(hc1, key, 0)
             hc2  == DictPut(hc1, key, hits + 1)
         IN  [ last_key |-> lk1,
               hit_counts |-> hc2,
               hits |-> hits,
               result |-> TacticEntryText(TACTICS[key], hits) ]

\* variant: on a change of key the counter popped is the new key's
_get_tactic_PopNew(key, lk, hc) ==
    LET switched == lk # key
        hc1  == IF switched /\ lk # NoneKey THEN DictPop(hc, key) ELSE hc
        lk1  == IF switched THEN key ELSE lk
        hits == DictGet(hc1, key, 0)
        hc2  == DictPut(hc1, key, hits + 1)
    IN  [ last_key |-> lk1,
          hit_counts |-> hc2,
          hits |-> hits,
          result |-> IF key \in DOMAIN TACTICS
                     THEN TacticEntryText(TACTICS[key], hits)
                     ELSE NoneStr ]

_get_tactic(key, lk, hc) ==
    LET switched == lk # key
        hc1  == IF switched /\ lk # NoneKey THEN DictPop(hc, lk) ELSE hc
        lk1  == IF switched THEN key ELSE lk
        hits == DictGet(hc1, key, 0)
        hc2  == DictPut(hc1, key, hits + 1)
    IN  [ last_key |-> lk1,
          hit_counts |-> hc2,
          hits |-> hits,
          result |-> IF key \in DOMAIN TACTICS
                     THEN TacticEntryText(TACTICS[key], hits)
                     ELSE NoneStr ]

(***************************************************************************)
(* _zone(val): the coarse bucket of a score (thresholds 35 / 65).          *)
(***************************************************************************)
ZONE_LOW == 35
ZONE_HIGH == 65

\* variant: the thresholds themselves belong to the outer zones
_zone_Inclusive(val) ==
    IF val <= ZONE_LOW THEN "low"
    ELSE IF val >= ZONE_HIGH THEN "high"
    ELSE "mid"

_zone(val) ==
    IF val < ZONE_LOW THEN "low"
    ELSE IF val > ZONE_HIGH THEN "high"
    ELSE "mid"

(***************************************************************************)
(* Alert texts.  A text is the tuple of its words; the leading pictograph  *)
(* of the source text is the word "(!)" or "(o)", the dash is "-".         *)
(* `kw in a` is containment of the keyword's words as a contiguous run.    *)
(***************************************************************************)
ALERT_ENGAGEMENT_DROPPING == <<"(!)", "Engagement", "dropping", "significantly">>
ALERT_STRESS_SPIKING      == <<"(!)", "Stress", "level", "spiking">>
ALERT_VERY_LOW_ENGAGEMENT == <<"(o)", "Very", "low", "engagement", "detected">>
ALERT_HIGH_STRESS         == <<"(o)", "High", "stress", "detected">>
ALERT_ATTENTION_LOST      == <<"(!)", "Attention", "lost", "-", "subject", "is", "disengaged">>

Contains(a, kw) ==
    \E i \in 1..(Len(a) - Len(kw) + 1) : SubSeq(a, i, i + Len(kw) - 1) = kw

LowerWord(w) ==
    CASE w = "Engagement" -> "engagement"
      [] w = "Stress" -> "stress"
      [] w = "STRESS" -> "stress"
      [] w = "Very" -> "very"
      [] w = "High" -> "high"
      [] w = "Attention" -> "attention"
      [] w = "Inconsistent" -> "inconsistent"
      [] w = "Posture" -> "posture"
      [] OTHER -> w

Lower(a) == [i \in 1..Len(a) |-> LowerWord(a[i])]

\* reasoning.py 412, 414, 416, 418: the four tests of the alert branch
IsAttentionAlert(a) ==
    \E kw \in {<<"Attention">>, <<"attention">>, <<"disengaged">>, <<"Disengaged">>} :
        Contains(a, kw)

IsEngagementAlert(a) ==
    Contains(a, <<"Engagement", "dropping">>) \/ Contains(a, <<"Very", "low", "engagement">>)

\* variant: the test for "Stress" without the lower-cased one
IsStressAlert_CaseSensitive(a) == Contains(a, <<"Stress">>)

IsStressAlert(a) == Contains(a, <<"Stress">>) \/ Contains(Lower(a), <<"stress">>)

IsInconsistencyAlert(a) == Contains(a, <<"Inconsistent">>)

(***************************************************************************)
(* _psychology_fallback(current, history, alerts).                         *)
(*                                                                         *)
(* PlannedCalls is the sequence of _get_tactic calls the function makes in *)
(* the order of its text, up to the call whose result it returns: each is  *)
(* [key, final, branch], final = TRUE for `return _get_tactic(key)` and    *)
(* FALSE for `result = _get_tactic(key); if result: return result`.  The   *)
(* conditions read only the arguments, never the rotation state.           *)
(***************************************************************************)
CRISIS_ATTENTION_LOST  == <<"__attention_lost__">>
CRISIS_ENGAGEMENT_DROP == <<"__engagement_drop__">>
CRISIS_STRESS_SPIKE    == <<"__stress_spike__">>
CRISIS_INCONSISTENCY   == <<"__inconsistency__">>

Return(key, branch) == [key |-> key, final |-> TRUE, branch |-> branch]
Try(key, branch)    == [key |-> key, final |-> FALSE, branch |-> branch]

\* variant: the whole list
Last3_Whole(history) == history

\* history[-3:]
Last3(history) ==
    IF Len(history) <= 3 THEN history ELSE SubSeq(history, Len(history) - 2, Len(history))

TrendEmotions(current, history) ==
    {Last3(history)[i].emotion : i \in 1..Len(Last3(history))} \cup {current.emotion}

\* variant: the attention of the key is never relaxed
FuzzyKeys_KeepAttention(emotion, attention, s_zone, e_zone) ==
    << <<emotion, attention, "mid", e_zone>>,
       <<emotion, attention, s_zone, "mid">>,
       <<emotion, attention, "mid", "mid">> >>

\* variant: the keys with attention relaxed to medium are tried first
FuzzyKeys_MediumFirst(emotion, attention, s_zone, e_zone) ==
    << <<emotion, "medium", s_zone, e_zone>>,
       <<emotion, "medium", "mid", e_zone>>,
       <<emotion, "medium", "mid", "mid">>,
       <<emotion, attention, "mid", e_zone>>,
       <<emotion, attention, s_zone, "mid">>,
       <<emotion, attention, "mid", "mid">> >>

FuzzyKeys(emotion, attention, s_zone, e_zone) ==
    << <<emotion, attention, "mid", e_zone>>,
       <<emotion, attention, s_zone, "mid">>,
       <<emotion, attention, "mid", "mid">>,
       <<emotion, "medium", s_zone, e_zone>>,
       <<emotion, "medium", "mid", e_zone>>,
       <<emotion, "medium", "mid", "mid">> >>

\* variant: the first alert of the list decides
AlertCalls_FirstAlert(alerts) ==
    IF alerts = <<>> THEN <<>>
    ELSE IF IsAttentionAlert(alerts[1]) THEN <<Return(CRISIS_ATTENTION_LOST, "alert")>>
    ELSE IF IsEngagementAlert(alerts[1]) THEN <<Return(CRISIS_ENGAGEMENT_DROP, "alert")>>
    ELSE IF IsStressAlert(alerts[1]) THEN <<Return(CRISIS_STRESS_SPIKE, "alert")>>
    ELSE IF IsInconsistencyAlert(alerts[1]) THEN <<Return(CRISIS_INCONSISTENCY, "alert")>>
    ELSE <<>>

\* reasoning.py 411-419: the alert branch; <<>> when no test matches
AlertCalls(alerts) ==
    IF alerts = <<>> THEN <<>>
    ELSE IF (\E i \in 1..Len(alerts) : IsAttentionAlert(alerts[i]))
        THEN <<Return(CRISIS_ATTENTION_LOST, "alert")>>
    ELSE IF (\E i \in 1..Len(alerts) : IsEngagementAlert(alerts[i]))
        THEN <<Return(CRISIS_ENGAGEMENT_DROP, "alert")>>
    ELSE IF (\E i \in 1..Len(alerts) : IsStressAlert(alerts[i]))
        THEN <<Return(CRISIS_STRESS_SPIKE, "alert")>>
    ELSE IF (\E i \in 1..Len(alerts) : IsInconsistencyAlert(alerts[i]))
        THEN <<Return(CRISIS_INCONSISTENCY, "alert")>>
    ELSE <<>>

\* reasoning.py 422-431: trend detection against history[-3]; <<>> when none
\* variant: the trend is measured against the newest entry of the history
TrendCalls_Newest(current, history) ==
    IF Len(history) < 3 THEN <<>>
    ELSE LET third == history[Len(history)]
             eng_trend == current.engagement_score - third.engagement_score
             stress_trend == current.stress_score - third.stress_score
         IN  IF eng_trend < -15
                 THEN <<Return(CRISIS_ENGAGEMENT_DROP, "trend")>>
             ELSE IF stress_trend > 15
                 THEN <<Return(CRISIS_STRESS_SPIKE, "trend")>>
             ELSE IF Cardinality(TrendEmotions(current, history)) >= 3
                 THEN <<Return(CRISIS_INCONSISTENCY, "trend")>>
             ELSE <<>>

\* variant: trend detection starts with two entries of history
TrendCalls_Short(current, history) ==
    IF Len(history) < 2 THEN <<>>
    ELSE LET third == history[IF Len(history) = 2 THEN 1 ELSE Len(history) - 2]
             eng_trend == current.engagement_score - third.engagement_score
             stress_trend == current.stress_score - third.stress_score
         IN  IF eng_trend < -15
                 THEN <<Return(CRISIS_ENGAGEMENT_DROP, "trend")>>
             ELSE IF stress_trend > 15
                 THEN <<Return(CRISIS_STRESS_SPIKE, "trend")>>
             ELSE IF Cardinality(TrendEmotions(current, history)) >= 3
                 THEN <<Return(CRISIS_INCONSISTENCY, "trend")>>
             ELSE <<>>

TrendCalls(current, history) ==
    IF Len(history) < 3 THEN <<>>
    ELSE LET third == history[Len(history) - 2]
             eng_trend == current.engagement_score - third.engagement_score
             stress_trend == current.stress_score - third.stress_score
         IN  IF eng_trend < -15
                 THEN <<Return(CRISIS_ENGAGEMENT_DROP, "trend")>>
             ELSE IF stress_trend > 15
                 THEN <<Return(CRISIS_STRESS_SPIKE, "trend")>>
             ELSE IF Cardinality(TrendEmotions(current, history)) >= 3
                 THEN <<Return(CRISIS_INCONSISTENCY, "trend")>>
             ELSE <<>>

\* variant: the overrides return the lookup's result without testing it
OverrideCalls_Unchecked(current) ==
    LET s_zone == _zone(current.stress_score)
        e_zone == _zone(current.engagement_score)
    IN  IF current.attention = "low"
            THEN <<Return(<<current.emotion, "low", s_zone, e_zone>>, "override")>>
        ELSE IF current.stress_score > 65
            THEN <<Return(<<current.emotion, current.attention, "high", e_zone>>, "override")>>
        ELSE IF current.engagement_score < 30
            THEN <<Return(CRISIS_ENGAGEMENT_DROP, "override")>>
        ELSE <<>>

\* reasoning.py 434-450: the hard overrides; <<>> when none applies
\* variant: stress > 65 is tested before attention == low
OverrideCalls_StressFirst(current) ==
    LET s_zone == _zone(current.stress_score)
        e_zone == _zone(current.engagement_score)
    IN  IF current.stress_score > 65
            THEN << Try(<<current.emotion, current.attention, "high", e_zone>>, "override"),
                    Return(CRISIS_STRESS_SPIKE, "override_fallback") >>
        ELSE IF current.attention = "low"
            THEN << Try(<<current.emotion, "low", s_zone, e_zone>>, "override"),
                    Return(CRISIS_ATTENTION_LOST, "override_fallback") >>
        ELSE IF current.engagement_score < 30
            THEN <<Return(CRISIS_ENGAGEMENT_DROP, "override")>>
        ELSE <<>>

OverrideCalls(current) ==
    LET s_zone == _zone(current.stress_score)
        e_zone == _zone(current.engagement_score)
    IN  IF current.attention = "low"
            THEN << Try(<<current.emotion, "low", s_zone, e_zone>>, "override"),
                    Return(CRISIS_ATTENTION_LOST, "override_fallback") >>
        ELSE IF current.stress_score > 65
            THEN << Try(<<current.emotion, current.attention, "high", e_zone>>, "override"),
                    Return(CRISIS_STRESS_SPIKE, "override_fallback") >>
        ELSE IF current.engagement_score < 30
            THEN <<Return(CRISIS_ENGAGEMENT_DROP, "override")>>
        ELSE <<>>

\* reasoning.py 453-469: the exact key, then the fuzzy keys in the order of the loop
LookupCalls(current) ==
    LET s_zone == _zone(current.stress_score)
        e_zone == _zone(current.engagement_score)
        fuzzy  == FuzzyKeys(current.emotion, current.attention, s_zone, e_zone)
    IN  <<Try(<<current.emotion, current.attention, s_zone, e_zone>>, "exact")>>
        \o [i \in 1..Len(fuzzy) |-> Try(fuzzy[i], "fuzzy")]

PlannedCalls(current, history, alerts) ==
    IF AlertCalls(alerts) # <<>> THEN AlertCalls(alerts)
    ELSE IF TrendCalls(current, history) # <<>> THEN TrendCalls(current, history)
    ELSE IF OverrideCalls(current) # <<>> THEN OverrideCalls(current)
    ELSE LookupCalls(current)

\* Python truth of a returned text: neither None nor the empty string
Truthy(text) == text # NoneStr /\ text # ""

\* variant: the flow window starts above engagement 75
InFlow_Narrow(current) == current.engagement_score > 75 /\ current.stress_score < 35

\* reasoning.py 471: the condition of the flow-state message
InFlow(current) == current.engagement_score > 70 /\ current.stress_score < 35

\* variant: the flow-state message advances the index of the default pool too
AfterLookups_FlowAdvances(current, lk, hc, di, probes) ==
    IF InFlow(current)
    THEN [ ret |-> FLOW_MESSAGE, branch |-> "flow", key |-> NoneKey, hits |-> 0,
           probes |-> probes,
           last_key |-> lk, hit_counts |-> hc, default_idx |-> di + 1 ]
    ELSE [ ret |-> _default_pool[(di % Len(_default_pool)) + 1], branch |-> "default",
           key |-> NoneKey, hits |-> 0, probes |-> probes,
           last_key |-> lk, hit_counts |-> hc, default_idx |-> di + 1 ]

\* variant: the default pool is read without advancing its index
AfterLookups_Stuck(current, lk, hc, di, probes) ==
    IF InFlow(current)
    THEN [ ret |-> FLOW_MESSAGE, branch |-> "flow", key |-> NoneKey, hits |-> 0,
           probes |-> probes,
           last_key |-> lk, hit_counts |-> hc, default_idx |-> di ]
    ELSE [ ret |-> _default_pool[(di % Len(_default_pool)) + 1], branch |-> "default",
           key |-> NoneKey, hits |-> 0, probes |-> probes,
           last_key |-> lk, hit_counts |-> hc, default_idx |-> di ]

\* what the function does once every planned call came back empty: the fixed
\* flow-state message, or the next text of the default pool
AfterLookups(current, lk, hc, di, probes) ==
    IF InFlow(current)
    THEN [ ret |-> FLOW_MESSAGE, branch |-> "flow", key |-> NoneKey, hits |-> 0,
           probes |-> probes,
           last_key |-> lk, hit_counts |-> hc, default_idx |-> di ]
    ELSE [ ret |-> _default_pool[(di % Len(_default_pool)) + 1], branch |-> "default",
           key |-> NoneKey, hits |-> 0, probes |-> probes,
           last_key |-> lk, hit_counts |-> hc, default_idx |-> di + 1 ]

RECURSIVE RunCalls(_, _, _, _, _, _)
RunCalls(calls, current, lk, hc, di, probes) ==
    IF calls = <<>> THEN AfterLookups(current, lk, hc, di, probes)
    ELSE LET c == Head(calls)
             r == _get_tactic(c.key, lk, hc)
         IN  IF c.final \/ Truthy(r.result)
             THEN [ ret |-> r.result, branch |-> c.branch, key |-> c.key, hits |-> r.hits,
                    probes |-> Append(probes, c.key),
                    last_key |-> r.last_key, hit_counts |-> r.hit_counts,
                    default_idx |-> di ]
             ELSE RunCalls(Tail(calls), current, r.last_key, r.hit_counts, di,
                           Append(probes, c.key))

\* the whole call, run without interruption, from rotation state (lk, hc, di):
\* ret = the text returned, branch = the branch that returned, key/hits = the key
\* of the returned entry and the hit count read for it, probes = every key handed
\* to _get_tactic, and the rotation state after the call
_psychology_fallback(current, history, alerts, lk, hc, di) ==
    RunCalls(PlannedCalls(current, history, alerts), current, lk, hc, di, <<>>)

(***************************************************************************)
(* get_agent_advice: the generative service first, when one is configured. *)
(* An outcome of the service call is [kind, text]: "reply" (a text came    *)
(* back), "error" (the call raised), "timeout" (the call's timeout raised),*)
(* "http_error" (a status other than 200) or "no_candidates" (a 200 reply  *)
(* with nothing in it).                                                    *)
(***************************************************************************)
PROVIDERS == {"gemini", "openai", "fallback"}

LLM_RAW_PLAIN  == "Mirror their last phrase."
LLM_RAW_PADDED == "  Ask what matters most. "

\* str.strip() on the texts the model's service returns
Strip(text) ==
    CASE text = LLM_RAW_PADDED -> "Ask what matters most."
      [] text = "   " -> ""
      [] OTHER -> text

LLMOutcomes ==
    { [kind |-> "reply", text |-> LLM_RAW_PLAIN], [kind |-> "reply", text |-> LLM_RAW_PADDED],
      [kind |-> "error", text |-> ""], [kind |-> "timeout", text |-> ""],
      [kind |-> "http_error", text |-> ""], [kind |-> "no_candidates", text |-> ""] }

\* the outcomes of the service call a provider makes; "fallback" makes none
ServiceOutcomes(provider) ==
    IF provider = "fallback" THEN {[kind |-> "none", text |-> ""]} ELSE LLMOutcomes

\* the result of a call that leaves the rotation state alone
Untouched(text, lk, hc, di) ==
    [ ret |-> text, selected |-> FALSE,
      last_key |-> lk, hit_counts |-> hc, default_idx |-> di ]

\* the result of a call that hands over to _psychology_fallback
Selected(r) ==
    [ ret |-> r.ret, selected |-> TRUE,
      last_key |-> r.last_key, hit_counts |-> r.hit_counts, default_idx |-> r.default_idx ]

\* reasoning.py 95-109: every exception ends in `return None`; the client raises
\* for a timeout, a connection error and an HTTP error status alike
_call_openai(llm, lk, hc, di) ==
    IF llm.kind = "reply"
    THEN Untouched(Strip(llm.text), lk, hc, di)
    ELSE Untouched(NoneStr, lk, hc, di)

\* reasoning.py 112-145: a 200 reply with a part returns its text; everything else
\* ends in _psychology_fallback(current, history, alerts)
_call_gemini(current, history, alerts, llm, lk, hc, di) ==
    IF llm.kind = "reply"
    THEN Untouched(Strip(llm.text), lk, hc, di)
    ELSE Selected(_psychology_fallback(current, history, alerts, lk, hc, di))

get_agent_advice(current, history, alerts, provider, llm, lk, hc, di) ==
    IF provider = "openai" THEN _call_openai(llm, lk, hc, di)
    ELSE IF provider = "gemini" THEN _call_gemini(current, history, alerts, llm, lk, hc, di)
    ELSE Selected(_psychology_fallback(current, history, alerts, lk, hc, di))

(***************************************************************************)
(* main.py: compute_scores.  Every weight is a whole number and so is half *)
(* of every attention weight, so the scores are whole numbers.             *)
(***************************************************************************)
attention_map == ("high" :> 30) @@ ("medium" :> 10) @@ ("low" :> -20)

emotion_eng_map ==
    ("happy" :> 15) @@ ("surprised" :> 10) @@ ("neutral" :> 0) @@ ("sad" :> -10)
    @@ ("angry" :> -5) @@ ("disgusted" :> -15) @@ ("fearful" :> -10)

posture_map ==
    ("upright" :> 10) @@ ("leaning_forward" :> 15) @@ ("neutral" :> 0) @@ ("slouched" :> -15)

speech_map == ("fast" :> -5) @@ ("normal" :> 5) @@ ("slow" :> 0) @@ ("silent" :> -10)

\* variant: the map also holds the label "fear"
emotion_stress_map_WithFear ==
    ("fearful" :> 40) @@ ("angry" :> 35) @@ ("disgusted" :> 25) @@ ("sad" :> 20)
    @@ ("surprised" :> 15) @@ ("neutral" :> 5) @@ ("happy" :> -10) @@ ("fear" :> 40)

emotion_stress_map ==
    ("fearful" :> 40) @@ ("angry" :> 35) @@ ("disgusted" :> 25) @@ ("sad" :> 20)
    @@ ("surprised" :> 15) @@ ("neutral" :> 5) @@ ("happy" :> -10)

tone_stress_map == ("stressed" :> 25) @@ ("calm" :> -10) @@ ("neutral" :> 0) @@ ("excited" :> 10)

pause_stress_map == ("frequent" :> 15) @@ ("minimal" :> 0) @@ ("none" :> 5)

movement_stress_map == ("restless" :> 20) @@ ("moderate" :> 5) @@ ("still" :> -5)

conf_posture_map ==
    ("upright" :> 20) @@ ("leaning_forward" :> 15) @@ ("neutral" :> 0) @@ ("slouched" :> -20)

conf_emotion_map ==
    ("happy" :> 15) @@ ("neutral" :> 5) @@ ("surprised" :> -5) @@ ("angry" :> -10)
    @@ ("fearful" :> -25) @@ ("sad" :> -15) @@ ("disgusted" :> -10)

conf_speech_map == ("fast" :> -5) @@ ("normal" :> 10) @@ ("slow" :> -5) @@ ("silent" :> -15)

\* variant: the sum is returned as it is
Clamp_None(x) == x

\* max(0.0, min(100.0, x))
Clamp(x) == IF x < 0 THEN 0 ELSE IF x > 100 THEN 100 ELSE x

\* `x if audio_signals else default`: an empty dict is false
AudioGet(audio_signals, k, default) ==
    IF DOMAIN audio_signals = {} THEN default ELSE DictGet(audio_signals, k, default)

\* variant: confidence takes the whole attention weight
compute_scores_FullAttention(vision_signals, audio_signals) ==
    LET emotion   == DictGet(vision_signals, "emotion", "neutral")
        attention == DictGet(vision_signals, "attention", "medium")
        posture   == DictGet(vision_signals, "posture", "neutral")
        movement  == DictGet(vision_signals, "movement", "moderate")
        speech_speed == AudioGet(audio_signals, "speech_speed", "normal")
        pauses    == AudioGet(audio_signals, "pauses", "minimal")
        tone      == AudioGet(audio_signals, "tone_indicator", "neutral")
    IN  [ engagement |->
            Clamp(50 + DictGet(attention_map, attention, 0)
                     + DictGet(emotion_eng_map, emotion, 0)
                     + DictGet(posture_map, posture, 0)
                     + DictGet(speech_map, speech_speed, 0)),
          stress |->
            Clamp(20 + DictGet(emotion_stress_map, emotion, 0)
                     + DictGet(tone_stress_map, tone, 0)
                     + DictGet(pause_stress_map, pauses, 0)
                     + DictGet(movement_stress_map, movement, 0)),
          confidence |->
            Clamp(50 + DictGet(attention_map, attention, 0)
                     + DictGet(conf_posture_map, posture, 0)
                     + DictGet(conf_emotion_map, emotion, 0)
                     + DictGet(conf_speech_map, speech_speed, 0)) ]

compute_scores(vision_signals, audio_signals) ==
    LET emotion   == DictGet(vision_signals, "emotion", "neutral")
        attention == DictGet(vision_signals, "attention", "medium")
        posture   == DictGet(vision_signals, "posture", "neutral")
        movement  == DictGet(vision_signals, "movement", "moderate")
        speech_speed == AudioGet(audio_signals, "speech_speed", "normal")
        pauses    == AudioGet(audio_signals, "pauses", "minimal")
        tone      == AudioGet(audio_signals, "tone_indicator", "neutral")
    IN  [ engagement |->
            Clamp(50 + DictGet(attention_map, attention, 0)
                     + DictGet(emotion_eng_map, emotion, 0)
                     + DictGet(posture_map, posture, 0)
                     + DictGet(speech_map, speech_speed, 0)),
          stress |->
            Clamp(20 + DictGet(emotion_stress_map, emotion, 0)
                     + DictGet(tone_stress_map, tone, 0)
                     + DictGet(pause_stress_map, pauses, 0)
                     + DictGet(movement_stress_map, movement, 0)),
          confidence |->
            Clamp(50 + (DictGet(attention_map, attention, 0) \div 2)
                     + DictGet(conf_posture_map, posture, 0)
                     + DictGet(conf_emotion_map, emotion, 0)
                     + DictGet(conf_speech_map, speech_speed, 0)) ]

(***************************************************************************)
(* analyzer.py: analyze_audio_features.                                    *)
(***************************************************************************)
valid_speeds == {"fast", "normal", "slow", "silent"}
valid_pauses == {"frequent", "minimal", "none"}
valid_tones  == {"stressed", "calm", "neutral", "excited"}

analyze_audio_features(audio_features) ==
    LET speech_speed   == DictGet(audio_features, "speech_speed", "normal")
        pauses         == DictGet(audio_features, "pauses", "minimal")
        tone_indicator == DictGet(audio_features, "tone_indicator", "neutral")
    IN  [ speech_speed |-> IF speech_speed \in valid_speeds THEN speech_speed ELSE "normal",
          pauses |-> IF pauses \in valid_pauses THEN pauses ELSE "minimal",
          tone_indicator |-> IF tone_indicator \in valid_tones THEN tone_indicator
                             ELSE "neutral" ]

(***************************************************************************)
(* main.py: detect_alerts(current, memory).  A comparison with a mean over *)
(* n entries is multiplied by n.                                           *)
(***************************************************************************)
RECURSIVE SumOf(_, _)
SumOf(states, field) ==
    IF states = <<>> THEN 0 ELSE Head(states)[field] + SumOf(Tail(states), field)

\* lines 112-136: the five checks, in the order of the code
AlertChecks(current, memory) ==
    LET prev_states == Last3(memory)
        n == Len(prev_states)
        sum_eng == SumOf(prev_states, "engagement_score")
        sum_stress == SumOf(prev_states, "stress_score")
    IN  (IF current.engagement_score * n < sum_eng - 20 * n
            THEN <<ALERT_ENGAGEMENT_DROPPING>> ELSE <<>>)
        \o (IF current.stress_score * n > sum_stress + 20 * n
            THEN <<ALERT_STRESS_SPIKING>> ELSE <<>>)
        \o (IF current.engagement_score < 30
            THEN <<ALERT_VERY_LOW_ENGAGEMENT>> ELSE <<>>)
        \o (IF current.stress_score > 75
            THEN <<ALERT_HIGH_STRESS>> ELSE <<>>)
        \o (IF current.attention = "low"
            THEN <<ALERT_ATTENTION_LOST>> ELSE <<>>)

\* variant: the checks run on a history of any length
detect_alerts_NoGuard(current, memory) == AlertChecks(current, memory)

\* variant: high stress is reported above 80 only
detect_alerts_LaxStress(current, memory) ==
    IF Len(memory) < 2 THEN <<>>
    ELSE SelectSeq(AlertChecks(current, memory),
                   LAMBDA a : a # ALERT_HIGH_STRESS \/ current.stress_score > 80)

\* variant: the alerts are returned newest check first
detect_alerts_Reversed(current, memory) ==
    IF Len(memory) < 2 THEN <<>>
    ELSE LET r == AlertChecks(current, memory)
         IN  [i \in 1..Len(r) |-> r[Len(r) + 1 - i]]

\* variant: the checks start with three entries of history
detect_alerts_FromThree(current, memory) ==
    IF Len(memory) < 3 THEN <<>> ELSE AlertChecks(current, memory)

detect_alerts(current, memory) ==
    IF Len(memory) < 2 THEN <<>> ELSE AlertChecks(current, memory)

(***************************************************************************)
(* main.py: analyze.  current_state as built at lines 162-171; the model   *)
(* adds two tags that the program does not hold: id, the position of the   *)
(* snapshot in the sequence of all appends, and session, the logical       *)
(* session the request belongs to.                                         *)
(***************************************************************************)
CurrentState(vision_signals, audio_processed, id, session) ==
    LET s == compute_scores(vision_signals, audio_processed)
    IN  [ emotion |-> vision_signals["emotion"], posture |-> vision_signals["posture"],
          attention |-> vision_signals["attention"], movement |-> vision_signals["movement"],
          engagement_score |-> s.engagement, stress_score |-> s.stress,
          confidence_score |-> s.confidence, audio |-> audio_processed,
          id |-> id, session |-> session ]

\* variant: the selector is handed the whole store
AllButLast_Whole(memory) == memory

\* line 185: state_memory[:-1]
AllButLast(memory) ==
    IF memory = <<>> THEN <<>> ELSE SubSeq(memory, 1, Len(memory) - 1)

\* lines 177-179: append, then drop the oldest entry beyond 5 entries
MEMORY_CAPACITY == 5

\* variant: beyond the capacity the newest entry is dropped instead of the oldest
AppendAndEvict_DropNewest(memory, current_state) ==
    LET appended == Append(memory, current_state)
    IN  IF Len(appended) > MEMORY_CAPACITY THEN AllButLast(appended) ELSE appended

\* variant: the snapshot is not in the store when the selector is invoked
AppendAndEvict_Late(memory, current_state) == memory

\* variant: the store keeps three entries
AppendAndEvict_KeepThree(memory, current_state) ==
    LET appended == Append(memory, current_state)
    IN  IF Len(appended) > 3 THEN Tail(appended) ELSE appended

AppendAndEvict(memory, current_state) ==
    LET appended == Append(memory, current_state)
    IN  IF Len(appended) > MEMORY_CAPACITY THEN Tail(appended) ELSE appended


(***************************************************************************)
(* The rotation tracker on its own: _get_tactic called directly, one call  *)
(* after the other, starting from the state at import.                     *)
(***************************************************************************)
\* keys the tracker is driven with: two TacticKeys and a crisis tag of the
\* catalog, and a TacticKey that the catalog does not hold
RotKeys ==
    { <<"neutral", "medium", "mid", "mid">>,
      <<"happy", "high", "low", "high">>,
      <<"__attention_lost__">>,
      <<"neutral", "high", "mid", "mid">> }

NoCall == [op |-> "none"]

\* the slots analyze calls run in: at most this many are in progress at once
Slots == {"r1", "r2"}

Idle == [pc |-> "idle"]

NoRequests ==
    /\ req = [s \in Slots |-> Idle]
    /\ ready = <<>>
    /\ running = "none"
    /\ appends = 0
    /\ rot_owner = "none"

\* no key of a generative service is configured: the engine answers every call
InitGlobals ==
    /\ state_memory = <<>>
    /\ LLM_PROVIDER = "fallback"
    /\ _last_key = NoneKey
    /\ _key_hit_counts = EmptyDict
    /\ _default_idx = 0
    /\ NoRequests

InitRot ==
    /\ InitGlobals
    /\ obs = NoCall

\* the observer's record of one direct call: the key, the hit count read, the text
\* returned, n = how many calls in a row (this one included) were made with this
\* key, and runs = the earlier runs <<key, length>>, the latest two, oldest first
RotObs(key, r) ==
    LET same == obs.op = "_get_tactic" /\ obs.key = key
        old  == IF obs.op = "_get_tactic" THEN obs.runs ELSE <<>>
        all  == IF obs.op = "_get_tactic" /\ ~same
                THEN Append(old, <<obs.key, obs.n>>) ELSE old
    IN  [ op |-> "_get_tactic", key |-> key, hits |-> r.hits, ret |-> r.result,
          n |-> IF same THEN obs.n + 1 ELSE 1,
          runs |-> IF Len(all) > 2 THEN Tail(all) ELSE all ]

CallGetTactic(key) ==
    \E r \in {_get_tactic(key, _last_key, _key_hit_counts)} :
        /\ (obs.op = "_get_tactic" /\ obs.key = key) => obs.n < MaxHits
        /\ _last_key' = r.last_key
        /\ _key_hit_counts' = r.hit_counts
        /\ obs' = RotObs(key, r)
        /\ UNCHANGED <<state_memory, _default_idx, LLM_PROVIDER, requests>>

NextRot == \E key \in RotKeys : CallGetTactic(key)

SpecRot == InitRot /\ [][NextRot]_vars

\* which variant of the key's entry a returned text is (0-based), -1 if none
VariantIndex(key, text) ==
    IF key \in DOMAIN TACTICS /\ \E i \in 1..Len(TACTICS[key]) : TACTICS[key][i] = text
    THEN (CHOOSE i \in 1..Len(TACTICS[key]) : TACTICS[key][i] = text) - 1
    ELSE -1

\* C4: 12 consecutive calls of the rotation step with one 3-variant key, starting
\* with no counter for it, return the variants 0,0,0,0,1,1,1,1,2,2,2,2 and the
\* 13th call wraps to variant 0.
C4_Expected == <<0, 0, 0, 0, 1, 1, 1, 1, 2, 2, 2, 2, 0>>

C4_TwelveCalls ==
    (obs.op = "_get_tactic" /\ obs.key \in DOMAIN TACTICS /\ obs.n <= 13)
        => VariantIndex(obs.key, obs.ret) = C4_Expected[obs.n]

C4_Witness ==
    /\ obs.op = "_get_tactic"
    /\ obs.key = <<"happy", "high", "low", "high">>
    /\ obs.n = 13
    /\ obs.ret = TACTICS[obs.key][1]

\* C5: switching to another key discards the previous key's progress: the first
\* call with a key after a call with a different key reads hit count 0 and
\* returns variant 0, however long the key's earlier run was.
C5_SwitchResets ==
    (obs.op = "_get_tactic" /\ obs.n = 1 /\ obs.key \in DOMAIN TACTICS)
        => (obs.hits = 0 /\ obs.ret = TACTICS[obs.key][1])

\* K1 five times (so that its second variant was reached), K2 once, K1 again
C5_Witness ==
    /\ obs.op = "_get_tactic"
    /\ obs.n = 1
    /\ obs.key = <<"happy", "high", "low", "high">>
    /\ obs.runs = << <<obs.key, 5>>, << <<"__attention_lost__">>, 1>> >>
    /\ obs.hits = 0
    /\ obs.ret = TACTICS[obs.key][1]

(***************************************************************************)
(* The selector as a function of its arguments and of the rotation state:  *)
(* one call of _psychology_fallback from each rotation state of a sample,  *)
(* with the arguments drawn from a grid.                                   *)
(***************************************************************************)
EMOTIONS   == {"neutral", "happy", "sad", "angry", "surprised", "disgusted", "fearful"}
ATTENTIONS == {"high", "medium", "low"}

DEFAULT_AUDIO ==
    [speech_speed |-> "normal", pauses |-> "minimal", tone_indicator |-> "neutral"]

\* a scored snapshot (main.py 162-171) with the fields the selector does not read
\* at their defaults
Snap(emotion, attention, engagement, stress) ==
    [ emotion |-> emotion, posture |-> "neutral", attention |-> attention,
      movement |-> "moderate", engagement_score |-> engagement,
      stress_score |-> stress, confidence_score |-> 50, audio |-> DEFAULT_AUDIO ]

\* scores on both sides of every threshold the selector compares with: engagement
\* with 30, 35, 65 and 70, stress with 35 and 65
EngagementGrid == {29, 30, 34, 35, 65, 66, 70, 71}
StressGrid     == {20, 34, 35, 65, 66}

\* "fear" is a label the perception service can deliver and the catalog never holds
GridCurrents ==
    { Snap(e, a, eng, st) : e \in EMOTIONS \cup {"fear"}, a \in ATTENTIONS,
                            eng \in EngagementGrid, st \in StressGrid }

H_FLAT == Snap("neutral", "medium", 20, 70)   \* three back: no trend for any grid score
H_KEEN == Snap("happy", "high", 95, 10)       \* three back: engagement fell by more than 15
H_EASY == Snap("neutral", "medium", 20, 4)    \* three back: stress rose by more than 15
H_SAD  == Snap("sad", "low", 20, 70)
H_EDGE == Snap("neutral", "medium", 50, 5)    \* three back: 15 away from engagement 35, stress 20

GridHistories ==
    { <<>>, <<H_KEEN>>, <<H_KEEN, H_EASY>>,
      <<H_FLAT, H_FLAT, H_FLAT>>, <<H_KEEN, H_FLAT, H_FLAT>>, <<H_EASY, H_FLAT, H_FLAT>>,
      <<H_FLAT, H_SAD, H_FLAT>>, <<H_FLAT, H_SAD, H_KEEN>>,
      <<H_KEEN, H_FLAT, H_FLAT, H_FLAT>>, <<H_FLAT, H_KEEN, H_FLAT, H_FLAT>>,
      <<H_EDGE, H_FLAT, H_FLAT>> }

\* alert lists that match no test of the alert branch
QuietAlerts == { <<>>, << <<"Posture", "changed">> >> }

\* alert lists that match one: what detect_alerts can emit, in and out of its
\* order, and texts that it never emits
LoudAlerts ==
    { <<ALERT_ENGAGEMENT_DROPPING>>, <<ALERT_STRESS_SPIKING>>, <<ALERT_VERY_LOW_ENGAGEMENT>>,
      <<ALERT_HIGH_STRESS>>, <<ALERT_ATTENTION_LOST>>,
      <<ALERT_ENGAGEMENT_DROPPING, ALERT_STRESS_SPIKING>>,
      <<ALERT_STRESS_SPIKING, ALERT_HIGH_STRESS, ALERT_ATTENTION_LOST>>,
      <<ALERT_HIGH_STRESS, ALERT_VERY_LOW_ENGAGEMENT>>,
      <<ALERT_ATTENTION_LOST, ALERT_ENGAGEMENT_DROPPING>>,
      << <<"Inconsistent", "signals">> >>,
      << <<"STRESS", "alarm">> >> }

\* snapshots that each reach another branch when no alert is passed
LoudCurrents ==
    { Snap("neutral", "medium", 50, 50), Snap("fearful", "low", 20, 85),
      Snap("happy", "high", 75, 20), Snap("angry", "high", 50, 80),
      Snap("surprised", "medium", 20, 20), Snap("disgusted", "high", 50, 20) }

\* the arguments of the calls: every grid snapshot with every history and the
\* quiet alert lists, and the loud alert lists with a few snapshots and histories
GridInputs ==
    (GridCurrents \X GridHistories \X QuietAlerts)
    \cup {<<Snap("fearful", "low", 20, 85), <<H_FLAT, H_FLAT>>, <<>>>>}
    \cup (LoudCurrents \X {<<>>, <<H_KEEN, H_FLAT, H_FLAT>>, <<H_FLAT, H_SAD, H_KEEN>>}
                       \X LoudAlerts)

\* rotation states: the one at import, states sequential calls leave (one counter,
\* for _last_key), and states interleaved calls can leave (a stale counter)
K_PRESENT == <<"neutral", "medium", "mid", "mid">>
K_MISSING == <<"neutral", "high", "mid", "mid">>

GridRotations ==
    { [last_key |-> NoneKey, hit_counts |-> EmptyDict, default_idx |-> 0],
      [last_key |-> K_PRESENT, hit_counts |-> (K_PRESENT :> 1), default_idx |-> 0],
      [last_key |-> K_PRESENT, hit_counts |-> (K_PRESENT :> 4), default_idx |-> 7],
      [last_key |-> K_PRESENT, hit_counts |-> (K_PRESENT :> 11), default_idx |-> 8],
      [last_key |-> K_MISSING, hit_counts |-> (K_MISSING :> 1), default_idx |-> 3],
      [last_key |-> CRISIS_ATTENTION_LOST, hit_counts |-> (CRISIS_ATTENTION_LOST :> 9),
       default_idx |-> 15],
      [last_key |-> CRISIS_STRESS_SPIKE,
       hit_counts |-> (CRISIS_STRESS_SPIKE :> 2) @@ (K_PRESENT :> 5), default_idx |-> 1] }

InitSelect ==
    /\ state_memory = <<>>
    /\ LLM_PROVIDER = "fallback"
    /\ \E rot \in GridRotations :
        /\ _last_key = rot.last_key
        /\ _key_hit_counts = rot.hit_counts
        /\ _default_idx = rot.default_idx
    /\ obs = NoCall
    /\ NoRequests

\* how many selector calls so far, the one that returned r included, ended in the
\* default pool
DefaultsSoFar(r) ==
    (IF obs.op = "_psychology_fallback" THEN obs.defaults ELSE 0)
        + (IF r.branch = "default" THEN 1 ELSE 0)

\* the observer's record of one selector call: the arguments, the rotation state
\* before it, what the call returned and did, n = how many calls in a row (this
\* one included) were answered from the catalog key of this one, and defaults =
\* how many calls so far ended in the default pool
SelObs(current, history, alerts, r, n) ==
    [ op |-> "_psychology_fallback", n |-> n, defaults |-> DefaultsSoFar(r),
      current |-> current, history |-> history, alerts |-> alerts,
      before |-> [last_key |-> _last_key, hit_counts |-> _key_hit_counts,
                  default_idx |-> _default_idx],
      ret |-> r.ret, branch |-> r.branch, key |-> r.key, hits |-> r.hits,
      probes |-> r.probes ]

SelectOnce(current, history, alerts) ==
    \E r \in {_psychology_fallback(current, history, alerts,
                                   _last_key, _key_hit_counts, _default_idx)} :
        /\ _last_key' = r.last_key
        /\ _key_hit_counts' = r.hit_counts
        /\ _default_idx' = r.default_idx
        /\ obs' = SelObs(current, history, alerts, r, 1)
        /\ UNCHANGED <<state_memory, LLM_PROVIDER, requests>>

\* one call per behaviour
NextSelect ==
    /\ obs.op = "none"
    /\ \E in \in GridInputs : SelectOnce(in[1], in[2], in[3])

SpecSelect == InitSelect /\ [][NextSelect]_vars

\* every text the engine can hand out
CatalogTexts == UNION { {TACTICS[k][i] : i \in 1..Len(TACTICS[k])} : k \in DOMAIN TACTICS }
PoolTexts    == {_default_pool[i] : i \in 1..Len(_default_pool)}

\* C1: for any snapshot, history and alerts list and from any rotation state,
\* _psychology_fallback returns a non-empty string, never None: a text of the
\* catalog, the flow-state message or a text of the default pool.
C1_SelectTotal ==
    obs.op = "_psychology_fallback"
        => /\ obs.ret # NoneStr
           /\ Len(obs.ret) > 0
           /\ obs.ret \in CatalogTexts \cup PoolTexts \cup {FLOW_MESSAGE}

\* a low-attention snapshot whose TacticKey the catalog does not hold, answered by
\* the crisis tag after the miss
C1_Witness ==
    /\ obs.op = "_psychology_fallback"
    /\ obs.alerts = <<>>
    /\ obs.branch = "override_fallback"
    /\ obs.probes = << <<"fear", "low", "high", "low">>, CRISIS_ATTENTION_LOST >>
    /\ obs.ret = TACTICS[CRISIS_ATTENTION_LOST][1]

(***************************************************************************)
(* The selector called again and again, one call after the other, from the *)
(* state at import: the rotation state is what the earlier calls left.     *)
(***************************************************************************)
\* longest run of consecutive calls answered from one catalog key that is followed
MaxRun == 9
\* calls that end in the default pool (the pool holds 8 texts)
MaxDefaultIdx == 9

S_EXACT       == Snap("neutral", "medium", 50, 50)  \* its own key is in the catalog
S_FUZZY       == Snap("neutral", "high", 50, 50)    \* found by the 4th fuzzy key
S_LOWATT_HIT  == Snap("fearful", "low", 20, 85)     \* low attention, key in the catalog
S_LOWATT_MISS == Snap("happy", "low", 50, 20)       \* low attention, key not in it
S_STRESS_HIT  == Snap("angry", "medium", 50, 80)    \* stress > 65, key in the catalog
S_STRESS_MISS == Snap("angry", "high", 50, 80)      \* stress > 65, key not in it
S_ENG_LOW     == Snap("surprised", "medium", 20, 20)
S_FLOW        == Snap("angry", "medium", 75, 20)    \* no key matches, flow window
S_DEFAULT     == Snap("angry", "medium", 50, 50)    \* no key matches, default pool

\* arguments that between them take every branch of the selector
SelInputs ==
    { <<S_EXACT, <<>>, <<>>>>, <<S_FUZZY, <<>>, <<>>>>,
      <<S_LOWATT_HIT, <<>>, <<>>>>, <<S_LOWATT_MISS, <<>>, <<>>>>,
      <<S_STRESS_HIT, <<>>, <<>>>>, <<S_STRESS_MISS, <<>>, <<>>>>,
      <<S_ENG_LOW, <<>>, <<>>>>, <<S_FLOW, <<>>, <<>>>>, <<S_DEFAULT, <<>>, <<>>>>,
      <<S_EXACT, <<H_KEEN, H_FLAT, H_FLAT>>, <<>>>>,
      <<S_EXACT, <<H_FLAT, H_SAD, H_KEEN>>, <<>>>>,
      <<S_LOWATT_MISS, <<H_FLAT, H_FLAT>>, <<ALERT_ATTENTION_LOST>>>>,
      <<S_STRESS_MISS, <<H_FLAT, H_FLAT>>, <<ALERT_STRESS_SPIKING, ALERT_HIGH_STRESS>>>>,
      <<S_ENG_LOW, <<H_FLAT, H_FLAT>>, <<ALERT_VERY_LOW_ENGAGEMENT>>>> }

InitSel ==
    /\ InitGlobals
    /\ obs = NoCall

\* how many calls in a row, the one that returned r included, were answered from r's key
RunLength(r) ==
    IF obs.op = "_psychology_fallback" /\ r.key # NoneKey /\ obs.key = r.key
    THEN obs.n + 1 ELSE 1

CallSelect(current, history, alerts) ==
    \E r \in {_psychology_fallback(current, history, alerts,
                                   _last_key, _key_hit_counts, _default_idx)} :
        /\ RunLength(r) <= MaxRun
        /\ r.default_idx <= MaxDefaultIdx
        /\ _last_key' = r.last_key
        /\ _key_hit_counts' = r.hit_counts
        /\ _default_idx' = r.default_idx
        /\ obs' = SelObs(current, history, alerts, r, RunLength(r))
        /\ UNCHANGED <<state_memory, LLM_PROVIDER, requests>>

NextSel == \E in \in SelInputs : CallSelect(in[1], in[2], in[3])

SpecSel == InitSel /\ [][NextSel]_vars

\* C3: whenever consecutive selector calls all resolve to the same catalog key, by
\* whichever branch, the n-th of them returns variant ((n-1) div 4) mod 3 of the
\* key's entry.
C3_RotationAcrossBranches ==
    (obs.op = "_psychology_fallback" /\ obs.key # NoneKey)
        => obs.ret = TACTICS[obs.key][(((obs.n - 1) \div 4) % 3) + 1]

(***************************************************************************)
(* get_agent_advice called once, under each provider and from each sampled *)
(* rotation state, with each outcome of the service call.                  *)
(***************************************************************************)
InitAdvice ==
    /\ state_memory = <<>>
    /\ LLM_PROVIDER \in PROVIDERS
    /\ \E rot \in GridRotations :
        /\ _last_key = rot.last_key
        /\ _key_hit_counts = rot.hit_counts
        /\ _default_idx = rot.default_idx
    /\ obs = NoCall
    /\ NoRequests

\* the observer's record of one call: the arguments, the outcome of the service
\* call, the text returned, whether _psychology_fallback was invoked, and `select`,
\* the text _psychology_fallback returns for these arguments from the state before
AdviceObs(current, history, alerts, llm, r) ==
    [ op |-> "get_agent_advice", provider |-> LLM_PROVIDER, llm |-> llm,
      current |-> current, history |-> history, alerts |-> alerts,
      ret |-> r.ret, selected |-> r.selected,
      select |-> _psychology_fallback(current, history, alerts,
                                      _last_key, _key_hit_counts, _default_idx).ret ]

AdviceOnce(current, history, alerts, llm) ==
    \E r \in {get_agent_advice(current, history, alerts, LLM_PROVIDER, llm,
                               _last_key, _key_hit_counts, _default_idx)} :
        /\ _last_key' = r.last_key
        /\ _key_hit_counts' = r.hit_counts
        /\ _default_idx' = r.default_idx
        /\ obs' = AdviceObs(current, history, alerts, llm, r)
        /\ UNCHANGED <<state_memory, LLM_PROVIDER, requests>>

NextAdvice ==
    /\ obs.op = "none"
    /\ \E in \in SelInputs, llm \in LLMOutcomes : AdviceOnce(in[1], in[2], in[3], llm)

SpecAdvice == InitAdvice /\ [][NextAdvice]_vars

\* C2: whenever the generative service is unavailable, errors or times out, under
\* either provider, get_agent_advice returns what the deterministic selector
\* returns for the same (current, history, alerts).
C2_FallbackOnFailure ==
    (obs.op = "get_agent_advice" /\ obs.provider \in {"openai", "gemini"}
        /\ obs.llm.kind # "reply")
        => (obs.selected /\ obs.ret = obs.select)

(***************************************************************************)
(* The /analyze endpoint under concurrent requests.                        *)
(*                                                                         *)
(* analyze is a coroutine: between two awaits it runs on the event loop    *)
(* with no other coroutine in between (running names it), and an await of  *)
(* asyncio.to_thread suspends it until the worker thread returns, when it  *)
(* joins the queue of coroutines ready to resume.  Worker threads run at   *)
(* any time, next to the event loop and to each other.                     *)
(***************************************************************************)
MaxRequests == 7

Sessions == {"s1", "s2"}

\* what analyze_frame returned and the audio_features of the request
IN_CALM ==
    [ vision |-> [emotion |-> "neutral", confidence |-> 55, posture |-> "neutral",
                  attention |-> "medium", movement |-> "moderate",
                  head_tilt |-> "centered"],
      audio |-> EmptyDict ]

IN_LOST ==
    [ vision |-> [emotion |-> "fearful", confidence |-> 80, posture |-> "slouched",
                  attention |-> "low", movement |-> "restless", head_tilt |-> "down"],
      audio |-> [speech_speed |-> "silent", pauses |-> "frequent",
                 tone_indicator |-> "stressed"] ]

IN_DRIFT ==
    [ vision |-> [emotion |-> "happy", confidence |-> 70, posture |-> "upright",
                  attention |-> "medium", movement |-> "restless",
                  head_tilt |-> "left"],
      audio |-> [speech_speed |-> "fast", pauses |-> "frequent",
                 tone_indicator |-> "calm"] ]

Inputs == {IN_CALM, IN_LOST}

\* the calls that were submitted and did not append their snapshot yet
Pending == {s \in Slots : req[s].pc \in {"vision", "vision_done", "detected"}}

\* lines 141-156, up to the await of the vision task (a frame that is not base64
\* ends the call with status 400 before anything is read or written)
Submit(s, session) ==
    /\ running = "none"
    /\ req[s].pc = "idle"
    /\ appends + Cardinality(Pending) < MaxRequests
    /\ req' = [req EXCEPT ![s] = [pc |-> "vision", session |-> session]]
    /\ UNCHANGED <<state_memory, _last_key, _key_hit_counts, _default_idx, LLM_PROVIDER,
                   obs, ready, running, appends, rot_owner>>

\* line 151: the worker thread returns from analyze_frame, the call is ready to resume
VisionReturn(s) ==
    /\ req[s].pc = "vision"
    /\ req' = [req EXCEPT ![s].pc = "vision_done"]
    /\ ready' = Append(ready, s)
    /\ UNCHANGED <<state_memory, _last_key, _key_hit_counts, _default_idx, LLM_PROVIDER,
                   obs, running, appends, rot_owner>>

\* variant: the event loop resumes any call whose frame analysis is done, not the
\* one that is first in its queue
Detect_OutOfTurn(s, in) ==
    /\ running = "none"
    /\ \E i \in 1..Len(ready) :
        /\ ready[i] = s
        /\ ready' = SubSeq(ready, 1, i - 1) \o SubSeq(ready, i + 1, Len(ready))
    /\ req[s].pc = "vision_done"
    /\ \E current_state \in {CurrentState(in.vision, analyze_audio_features(in.audio),
                                          appends + 1, req[s].session)} :
        req' = [req EXCEPT ![s] =
                    [ pc |-> "detected", session |-> req[s].session,
                      current_state |-> current_state,
                      window |-> state_memory,
                      alerts |-> detect_alerts(current_state, state_memory) ]]
    /\ running' = s
    /\ UNCHANGED <<state_memory, _last_key, _key_hit_counts, _default_idx, LLM_PROVIDER,
                   obs, appends, rot_owner>>

\* variant: detecting consumes the newest entry of the store
Detect_Consuming(s, in) ==
    /\ running = "none"
    /\ ready # <<>> /\ Head(ready) = s
    /\ req[s].pc = "vision_done"
    /\ \E current_state \in {CurrentState(in.vision, analyze_audio_features(in.audio),
                                          appends + 1, req[s].session)} :
        req' = [req EXCEPT ![s] =
                    [ pc |-> "detected", session |-> req[s].session,
                      current_state |-> current_state,
                      window |-> state_memory,
                      alerts |-> detect_alerts(current_state, state_memory) ]]
    /\ state_memory' = AllButLast(state_memory)
    /\ ready' = Tail(ready)
    /\ running' = s
    /\ UNCHANGED <<_last_key, _key_hit_counts, _default_idx, LLM_PROVIDER,
                   obs, appends, rot_owner>>

\* lines 156-174: the event loop resumes the call: scores, current_state, alerts.
\* in = what the thread returned for this request and the request's audio_features.
Detect(s, in) ==
    /\ running = "none"
    /\ ready # <<>> /\ Head(ready) = s
    /\ req[s].pc = "vision_done"
    /\ \E current_state \in {CurrentState(in.vision, analyze_audio_features(in.audio),
                                          appends + 1, req[s].session)} :
        req' = [req EXCEPT ![s] =
                    [ pc |-> "detected", session |-> req[s].session,
                      current_state |-> current_state,
                      window |-> state_memory,
                      alerts |-> detect_alerts(current_state, state_memory) ]]
    /\ ready' = Tail(ready)
    /\ running' = s
    /\ UNCHANGED <<state_memory, _last_key, _key_hit_counts, _default_idx, LLM_PROVIDER,
                   obs, appends, rot_owner>>

\* lines 177-179
AppendSnapshot(s) ==
    /\ running = s
    /\ req[s].pc = "detected"
    /\ state_memory' = AppendAndEvict(state_memory, req[s].current_state)
    /\ appends' = appends + 1
    /\ req' = [req EXCEPT ![s].pc = "appended"]
    /\ UNCHANGED <<_last_key, _key_hit_counts, _default_idx, LLM_PROVIDER, obs, ready,
                   running, rot_owner>>

\* lines 182-187: state_memory[:-1] is evaluated and handed to the worker thread,
\* the call is suspended
Dispatch(s) ==
    /\ running = s
    /\ req[s].pc = "appended"
    /\ req' = [req EXCEPT ![s] =
                [ pc |-> "advice", session |-> req[s].session,
                  current_state |-> req[s].current_state, alerts |-> req[s].alerts,
                  history |-> AllButLast(state_memory) ]]
    /\ running' = "none"
    /\ UNCHANGED <<state_memory, _last_key, _key_hit_counts, _default_idx, LLM_PROVIDER,
                   obs, ready, appends, rot_owner>>

\* the call once its worker thread returned `advice`
Advised(r, advice) ==
    [ pc |-> "advised", session |-> r.session, current_state |-> r.current_state,
      alerts |-> r.alerts, history |-> r.history, advice |-> advice ]

\* line 183, the worker thread running get_agent_advice from its first to its last
\* statement with no other thread in between
Advise(s) ==
    /\ req[s].pc = "advice"
    /\ \E llm \in ServiceOutcomes(LLM_PROVIDER) :
       \E r \in {get_agent_advice(req[s].current_state, req[s].history, req[s].alerts,
                                  LLM_PROVIDER, llm,
                                  _last_key, _key_hit_counts, _default_idx)} :
        /\ _last_key' = r.last_key
        /\ _key_hit_counts' = r.hit_counts
        /\ _default_idx' = r.default_idx
        /\ rot_owner' = IF r.hit_counts # _key_hit_counts THEN req[s].session
                        ELSE rot_owner
        /\ req' = [req EXCEPT ![s] = Advised(req[s], r.ret)]
    /\ ready' = Append(ready, s)
    /\ UNCHANGED <<state_memory, LLM_PROVIDER, obs, running, appends>>

\* lines 189-202: the event loop resumes the call, which builds and returns the response
Respond(s) ==
    /\ running = "none"
    /\ ready # <<>> /\ Head(ready) = s
    /\ req[s].pc = "advised"
    /\ req' = [req EXCEPT ![s] = Idle]
    /\ ready' = Tail(ready)
    /\ UNCHANGED <<state_memory, _last_key, _key_hit_counts, _default_idx, LLM_PROVIDER,
                   obs, running, appends, rot_owner>>

\* one logical session, worker threads that do not overlap inside get_agent_advice
Init ==
    /\ InitGlobals
    /\ obs = NoCall

Next ==
    \E s \in Slots :
        \/ Submit(s, "s1")
        \/ VisionReturn(s)
        \/ \E in \in Inputs : Detect(s, in)
        \/ AppendSnapshot(s)
        \/ Dispatch(s)
        \/ Advise(s)
        \/ Respond(s)

Spec == Init /\ [][Next]_vars

\* C6: the history store holds at most 5 snapshots, exactly the most recently
\* appended ones in append order, oldest first.
C6_MemoryBound ==
    /\ Len(state_memory) <= 5
    /\ Len(state_memory) = (IF appends < 5 THEN appends ELSE 5)
    /\ \A i \in 1..Len(state_memory) :
            state_memory[i].id = appends - Len(state_memory) + i

\* seven snapshots were appended, the store holds the 3rd to the 7th
C6_Witness ==
    /\ appends = 7
    /\ [i \in 1..Len(state_memory) |-> state_memory[i].id] = <<3, 4, 5, 6, 7>>

\* whether the list holds the snapshot the call in slot s evaluates
Holds(list, s) == \E i \in 1..Len(list) : list[i].id = req[s].current_state.id

\* C7: neither the history the alert detector read nor the history handed to the
\* tactic selector contains the snapshot being evaluated.
C7_HistoryExcludesCurrent ==
    \A s \in Slots :
        /\ req[s].pc \in {"detected", "appended"} => ~Holds(req[s].window, s)
        /\ req[s].pc \in {"advice", "advised"} => ~Holds(req[s].history, s)

\* a selector was handed four earlier snapshots while its own is in the full store
C7_Witness ==
    \E s \in Slots :
        /\ req[s].pc = "advice"
        /\ Len(req[s].history) = 4
        /\ Len(state_memory) = 5 /\ Holds(state_memory, s)

RaceRequests == 2

RaceInputs == {IN_CALM, IN_DRIFT}

\* the worker thread of a call inside _psychology_fallback: calls = the _get_tactic
\* calls still to make, the first being the one in progress; hits, idx and tmp = the
\* locals of the statement reached; owner = the session that wrote the count read
Thread(r, pc, calls, hits, owner, idx, tmp) ==
    [ pc |-> pc, session |-> r.session, current_state |-> r.current_state,
      alerts |-> r.alerts, history |-> r.history,
      calls |-> calls, hits |-> hits, owner |-> owner, idx |-> idx, tmp |-> tmp ]

ThreadUnchanged == <<state_memory, LLM_PROVIDER, obs, running, appends>>

\* reasoning.py 86-92 and 400-408: the dispatch on the provider and the selector up
\* to its first call of _get_tactic
ThreadEnter(s) ==
    /\ req[s].pc = "advice"
    /\ \E llm \in ServiceOutcomes(LLM_PROVIDER) :
       \E r \in {get_agent_advice(req[s].current_state, req[s].history, req[s].alerts,
                                  LLM_PROVIDER, llm,
                                  _last_key, _key_hit_counts, _default_idx)} :
            IF r.selected
            THEN /\ req' = [req EXCEPT ![s] =
                        Thread(req[s], "gt_cmp",
                               PlannedCalls(req[s].current_state, req[s].history,
                                            req[s].alerts),
                               0, "none", 0, 0)]
                 /\ UNCHANGED ready
            ELSE /\ req' = [req EXCEPT ![s] = Advised(req[s], r.ret)]
                 /\ ready' = Append(ready, s)
    /\ UNCHANGED <<_last_key, _key_hit_counts, _default_idx, rot_owner>>
    /\ UNCHANGED ThreadUnchanged

\* reasoning.py 163: if _last_key[0] != key
GtCmp(s) ==
    /\ req[s].pc = "gt_cmp"
    /\ req' = [req EXCEPT ![s].pc =
                IF _last_key # Head(req[s].calls).key THEN "gt_chk" ELSE "gt_read"]
    /\ UNCHANGED <<_last_key, _key_hit_counts, _default_idx, rot_owner, ready>>
    /\ UNCHANGED ThreadUnchanged

\* reasoning.py 165: if _last_key[0]
GtChk(s) ==
    /\ req[s].pc = "gt_chk"
    /\ req' = [req EXCEPT ![s].pc = IF _last_key # NoneKey THEN "gt_pop" ELSE "gt_set"]
    /\ UNCHANGED <<_last_key, _key_hit_counts, _default_idx, rot_owner, ready>>
    /\ UNCHANGED ThreadUnchanged

\* reasoning.py 166: _key_hit_counts.pop(_last_key[0], None)
GtPop(s) ==
    /\ req[s].pc = "gt_pop"
    /\ _key_hit_counts' = DictPop(_key_hit_counts, _last_key)
    /\ req' = [req EXCEPT ![s].pc = "gt_set"]
    /\ UNCHANGED <<_last_key, _default_idx, rot_owner, ready>>
    /\ UNCHANGED ThreadUnchanged

\* reasoning.py 167: _last_key[0] = key
GtSet(s) ==
    /\ req[s].pc = "gt_set"
    /\ _last_key' = Head(req[s].calls).key
    /\ req' = [req EXCEPT ![s].pc = "gt_read"]
    /\ UNCHANGED <<_key_hit_counts, _default_idx, rot_owner, ready>>
    /\ UNCHANGED ThreadUnchanged

\* reasoning.py 169: hits = _key_hit_counts.get(key, 0)
GtRead(s) ==
    /\ req[s].pc = "gt_read"
    /\ req' = [req EXCEPT ![s].pc = "gt_write",
                          ![s].hits = DictGet(_key_hit_counts, Head(req[s].calls).key, 0),
                          ![s].owner = rot_owner]
    /\ UNCHANGED <<_last_key, _key_hit_counts, _default_idx, rot_owner, ready>>
    /\ UNCHANGED ThreadUnchanged

\* reasoning.py 170-178: _key_hit_counts[key] = hits + 1 and the text returned, then
\* the caller's test of it (406-477): return it, make the next call, or fall through
GtWrite(s) ==
    /\ req[s].pc = "gt_write"
    /\ _key_hit_counts' = DictPut(_key_hit_counts, Head(req[s].calls).key, req[s].hits + 1)
    /\ rot_owner' = req[s].session
    /\ \E c \in {Head(req[s].calls)} :
       \E result \in {IF c.key \in DOMAIN TACTICS
                      THEN TacticEntryText(TACTICS[c.key], req[s].hits) ELSE NoneStr} :
            IF c.final \/ Truthy(result)
            THEN /\ req' = [req EXCEPT ![s] = Advised(req[s], result)]
                 /\ ready' = Append(ready, s)
            ELSE IF Tail(req[s].calls) # <<>>
            THEN /\ req' = [req EXCEPT ![s].pc = "gt_cmp", ![s].calls = Tail(req[s].calls)]
                 /\ UNCHANGED ready
            ELSE IF InFlow(req[s].current_state)
            THEN /\ req' = [req EXCEPT ![s] = Advised(req[s], FLOW_MESSAGE)]
                 /\ ready' = Append(ready, s)
            ELSE /\ req' = [req EXCEPT ![s].pc = "df_idx", ![s].calls = <<>>]
                 /\ UNCHANGED ready
    /\ UNCHANGED <<_last_key, _default_idx>>
    /\ UNCHANGED ThreadUnchanged

\* reasoning.py 480: idx = _default_idx[0] % len(_default_pool)
DfIdx(s) ==
    /\ req[s].pc = "df_idx"
    /\ req' = [req EXCEPT ![s].pc = "df_load",
                          ![s].idx = _default_idx % Len(_default_pool)]
    /\ UNCHANGED <<_last_key, _key_hit_counts, _default_idx, rot_owner, ready>>
    /\ UNCHANGED ThreadUnchanged

\* reasoning.py 481, _default_idx[0] += 1: the load
DfLoad(s) ==
    /\ req[s].pc = "df_load"
    /\ req' = [req EXCEPT ![s].pc = "df_store", ![s].tmp = _default_idx]
    /\ UNCHANGED <<_last_key, _key_hit_counts, _default_idx, rot_owner, ready>>
    /\ UNCHANGED ThreadUnchanged

\* reasoning.py 481-482: the store, and return _default_pool[idx]
DfStore(s) ==
    /\ req[s].pc = "df_store"
    /\ _default_idx' = req[s].tmp + 1
    /\ req' = [req EXCEPT ![s] = Advised(req[s], _default_pool[req[s].idx + 1])]
    /\ ready' = Append(ready, s)
    /\ UNCHANGED <<_last_key, _key_hit_counts, rot_owner>>
    /\ UNCHANGED ThreadUnchanged

InitRace ==
    /\ InitGlobals
    /\ obs = NoCall

NextRace ==
    \E s \in Slots :
        \/ \E session \in Sessions :
            /\ appends + Cardinality(Pending) < RaceRequests
            /\ Submit(s, session)
        \/ VisionReturn(s)
        \/ \E in \in RaceInputs : Detect(s, in)
        \/ AppendSnapshot(s)
        \/ Dispatch(s)
        \/ ThreadEnter(s)
        \/ GtCmp(s)
        \/ GtChk(s)
        \/ GtPop(s)
        \/ GtSet(s)
        \/ GtRead(s)
        \/ GtWrite(s)
        \/ DfIdx(s)
        \/ DfLoad(s)
        \/ DfStore(s)
        \/ Respond(s)

SpecRace == InitRace /\ [][NextRace]_vars

\* the thread of the call in slot s did the compare of line 163 for a key and has
\* not yet stored the key's incremented count (line 170)
InRotationStep(s) == req[s].pc \in {"gt_chk", "gt_pop", "gt_set", "gt_read", "gt_write"}

\* C9: the rotation steps (compare/reset of the last key, read-increment of the hit
\* counter) of two overlapping analyze requests never overlap.
C9_NoInterleaving ==
    \A s, t \in Slots : (s # t) => ~(InRotationStep(s) /\ InRotationStep(t))

\* the calls whose worker thread is inside get_agent_advice or returned from it
InAdvice(s) == req[s].pc \notin {"idle", "vision", "vision_done", "detected", "appended"}

\* C10: snapshots of another session never enter the history used for a snapshot
\* (the alert detector's or the selector's), and the hit count a selection reads was
\* not written by a selection of another session.
C10_SessionIsolation ==
    \A s \in Slots :
        /\ req[s].pc \in {"detected", "appended"} =>
                \A i \in 1..Len(req[s].window) : req[s].window[i].session = req[s].session
        /\ InAdvice(s) =>
                \A i \in 1..Len(req[s].history) : req[s].history[i].session = req[s].session
        /\ (req[s].pc = "gt_write" /\ req[s].hits > 0) => req[s].owner = req[s].session
(***************************************************************************)
(* compute_scores called once on every combination of valid values.        *)
(***************************************************************************)
POSTURES  == {"upright", "leaning_forward", "neutral", "slouched"}
MOVEMENTS == {"restless", "moderate", "still"}

ScoreInputs ==
    { <<[emotion |-> e, attention |-> a, posture |-> p, movement |-> m],
        [speech_speed |-> sp, pauses |-> pa, tone_indicator |-> t]>> :
        e \in EMOTIONS, a \in ATTENTIONS, p \in POSTURES, m \in MOVEMENTS,
        sp \in valid_speeds, pa \in valid_pauses, t \in valid_tones }

InitScores ==
    /\ InitGlobals
    /\ obs = NoCall

ScoreOnce(vision_signals, audio_signals) ==
    /\ obs' = [ op |-> "compute_scores", vision_signals |-> vision_signals,
                audio_signals |-> audio_signals,
                ret |-> compute_scores(vision_signals, audio_signals) ]
    /\ UNCHANGED <<state_memory, _last_key, _key_hit_counts, _default_idx, LLM_PROVIDER,
                   requests>>

\* one call per behaviour
NextScores ==
    /\ obs.op = "none"
    /\ \E in \in ScoreInputs : ScoreOnce(in[1], in[2])

SpecScores == InitScores /\ [][NextScores]_vars

\* C11: for every combination of valid values of emotion, attention, posture,
\* movement, speech_speed, pauses and tone, compute_scores returns engagement,
\* stress and confidence each within [0, 100].
C11_ScoresInRange ==
    obs.op = "compute_scores" =>
        /\ obs.ret.engagement >= 0 /\ obs.ret.engagement <= 100
        /\ obs.ret.stress >= 0 /\ obs.ret.stress <= 100
        /\ obs.ret.confidence >= 0 /\ obs.ret.confidence <= 100

\* a combination whose weights add up to more than 100 for engagement and to less
\* than 0 for stress
C11_Witness ==
    /\ obs.op = "compute_scores"
    /\ obs.vision_signals = [emotion |-> "happy", attention |-> "high",
                             posture |-> "leaning_forward", movement |-> "still"]
    /\ obs.audio_signals = [speech_speed |-> "normal", pauses |-> "minimal",
                            tone_indicator |-> "calm"]
    /\ obs.ret.engagement = 100 /\ obs.ret.stress = 0
(***************************************************************************)
(* detect_alerts called once on a grid of snapshots and histories.  The    *)
(* function reads the scores and the attention of the current snapshot and *)
(* the scores of the history entries.                                      *)
(***************************************************************************)
AlertEngagements == {10, 29, 30, 31, 32, 50, 90}
AlertStresses    == {10, 75, 76, 78, 79, 80, 81}

AlertCurrents ==
    { Snap("neutral", a, e, st) :
        a \in {"low", "medium"}, e \in AlertEngagements, st \in AlertStresses }

M_EVEN  == Snap("neutral", "medium", 50, 60)
M_ODD   == Snap("neutral", "medium", 55, 55)
M_KEEN  == Snap("happy", "high", 90, 10)
M_TENSE == Snap("fearful", "low", 10, 90)

AlertPool == {M_EVEN, M_ODD, M_KEEN, M_TENSE}

MaxMemory == 4

AlertMemories ==
    UNION { [1..n -> AlertPool] : n \in 0..MaxMemory }

InitAlerts ==
    /\ InitGlobals
    /\ obs = NoCall

DetectOnce(current, memory) ==
    /\ obs' = [ op |-> "detect_alerts", current |-> current, memory |-> memory,
                ret |-> detect_alerts(current, memory) ]
    /\ UNCHANGED <<state_memory, _last_key, _key_hit_counts, _default_idx, LLM_PROVIDER,
                   requests>>

\* one call per behaviour
NextAlerts ==
    /\ obs.op = "none"
    /\ \E current \in AlertCurrents, memory \in AlertMemories : DetectOnce(current, memory)

SpecAlerts == InitAlerts /\ [][NextAlerts]_vars

\* whether the list returned holds the alert
Raised(alert) == \E i \in 1..Len(obs.ret) : obs.ret[i] = alert

\* C12: detect_alerts returns an empty list whenever the history has fewer than 2
\* entries, whatever the current snapshot's scores and attention.
C12_ShortHistoryNoAlerts ==
    (obs.op = "detect_alerts" /\ Len(obs.memory) < 2) => obs.ret = <<>>

\* one entry of history, and a snapshot that meets three of the conditions
C12_Witness ==
    /\ obs.op = "detect_alerts"
    /\ Len(obs.memory) = 1
    /\ obs.current.engagement_score = 10 /\ obs.current.stress_score = 81
    /\ obs.current.attention = "low"
    /\ obs.ret = <<>>

\* C13: with at least 2 history entries and window = the last min(3, len) entries,
\* the alerts returned are exactly those whose condition holds: engagement dropping
\* iff engagement < mean(window engagement) - 20, stress spiking iff stress >
\* mean(window stress) + 20, very low engagement iff engagement < 30, high stress
\* iff stress > 75, attention lost iff attention is low.
C13_ExactAlerts ==
    (obs.op = "detect_alerts" /\ Len(obs.memory) >= 2) =>
        LET len == Len(obs.memory)
            k == IF len < 3 THEN len ELSE 3
            window == SubSeq(obs.memory, len - k + 1, len)
        IN  /\ Raised(ALERT_ENGAGEMENT_DROPPING) <=>
                    k * obs.current.engagement_score
                        < SumOf(window, "engagement_score") - 20 * k
            /\ Raised(ALERT_STRESS_SPIKING) <=>
                    k * obs.current.stress_score > SumOf(window, "stress_score") + 20 * k
            /\ Raised(ALERT_VERY_LOW_ENGAGEMENT) <=> obs.current.engagement_score < 30
            /\ Raised(ALERT_HIGH_STRESS) <=> obs.current.stress_score > 75
            /\ Raised(ALERT_ATTENTION_LOST) <=> obs.current.attention = "low"
            /\ \A i \in 1..Len(obs.ret) :
                    obs.ret[i] \in { ALERT_ENGAGEMENT_DROPPING, ALERT_STRESS_SPIKING,
                                     ALERT_VERY_LOW_ENGAGEMENT, ALERT_HIGH_STRESS,
                                     ALERT_ATTENTION_LOST }

\* four entries of history whose oldest would move the mean: the window of three has
\* mean engagement 51.67 and the snapshot's 31 is below it by more than 20, with the
\* oldest entry counted it would not be
C13_Witness ==
    /\ obs.op = "detect_alerts"
    /\ obs.memory = <<M_TENSE, M_EVEN, M_EVEN, M_ODD>>
    /\ obs.current.engagement_score = 31 /\ obs.current.stress_score = 10
    /\ obs.current.attention = "medium"
    /\ obs.ret = <<ALERT_ENGAGEMENT_DROPPING>>

\* C14 as the specification states it: whenever the snapshot's stress is above 75
\* the result contains high stress, and stress spiking is present only when the
\* stress exceeds the window's mean by more than 20.
C14_HighStressAlways ==
    (obs.op = "detect_alerts" /\ obs.current.stress_score > 75) =>
        /\ Raised(ALERT_HIGH_STRESS)
        /\ Raised(ALERT_STRESS_SPIKING) =>
                Len(Last3(obs.memory)) * obs.current.stress_score
                    > SumOf(Last3(obs.memory), "stress_score") + 20 * Len(Last3(obs.memory))

\* C14, amended: the same with at least 2 entries of history.
C14_HighStressWithHistory ==
    (obs.op = "detect_alerts" /\ Len(obs.memory) >= 2 /\ obs.current.stress_score > 75) =>
        /\ Raised(ALERT_HIGH_STRESS)
        /\ Raised(ALERT_STRESS_SPIKING) <=>
                Len(Last3(obs.memory)) * obs.current.stress_score
                    > SumOf(Last3(obs.memory), "stress_score") + 20 * Len(Last3(obs.memory))

\* stress 80 after a window of mean stress 60: high stress without stress spiking
C14_Witness ==
    /\ obs.op = "detect_alerts"
    /\ obs.memory = <<M_EVEN, M_EVEN>>
    /\ obs.current.stress_score = 80
    /\ Raised(ALERT_HIGH_STRESS) /\ ~Raised(ALERT_STRESS_SPIKING)

AlertOrder ==
    << ALERT_ENGAGEMENT_DROPPING, ALERT_STRESS_SPIKING, ALERT_VERY_LOW_ENGAGEMENT,
       ALERT_HIGH_STRESS, ALERT_ATTENTION_LOST >>

\* C15: the alerts returned appear in the order engagement dropping, stress spiking,
\* very low engagement, high stress, attention lost, each at most once.
C15_FixedOrder ==
    obs.op = "detect_alerts" =>
        /\ \A i \in 1..Len(obs.ret) : \E r \in 1..Len(AlertOrder) : AlertOrder[r] = obs.ret[i]
        /\ \A i, j \in 1..Len(obs.ret) :
                i < j => \E r, q \in 1..Len(AlertOrder) :
                            /\ r < q
                            /\ AlertOrder[r] = obs.ret[i]
                            /\ AlertOrder[q] = obs.ret[j]

\* all five alerts at once
C15_Witness ==
    /\ obs.op = "detect_alerts"
    /\ obs.ret = AlertOrder
(***************************************************************************)
(* _psychology_fallback called once with a non-empty alerts list: every    *)
(* list of up to MaxAlerts alerts, in any order and with repeats, over the *)
(* five texts detect_alerts emits and one it does not.                     *)
(***************************************************************************)
MaxAlerts == 3

ALERT_INCONSISTENT == <<"Inconsistent", "signals">>

EmittedAlerts == { AlertOrder[i] : i \in 1..Len(AlertOrder) }

AlertLists ==
    UNION { [1..n -> EmittedAlerts \cup {ALERT_INCONSISTENT}] : n \in 1..MaxAlerts }

\* a history with no trend for the snapshots of LoudCurrents, and one whose entry
\* three back makes the trend branch match when no alert is passed
AlertSelHistories == { <<>>, <<H_KEEN, H_FLAT, H_FLAT>> }

AlertSelInputs == LoudCurrents \X AlertSelHistories \X AlertLists

NextAlertSel ==
    /\ obs.op = "none"
    /\ \E in \in AlertSelInputs : SelectOnce(in[1], in[2], in[3])

SpecAlertSel == InitSelect /\ [][NextAlertSel]_vars

\* whether the alerts list passed holds one of the alerts
Passed(kinds) == \E i \in 1..Len(obs.alerts) : obs.alerts[i] \in kinds

\* the call made one _get_tactic call, for the crisis tag, from the alert branch, and
\* returned a variant of the tag's entry without touching the default pool
AnsweredByAlert(tag) ==
    /\ obs.branch = "alert"
    /\ obs.key = tag
    /\ obs.probes = <<tag>>
    /\ \E v \in 1..Len(TACTICS[tag]) : obs.ret = TACTICS[tag][v]
    /\ _default_idx = obs.before.default_idx

\* C16: with a non-empty alerts list made of alerts that detect_alerts can emit,
\* the selector returns a variant of a crisis-tag entry from the alert branch and
\* reaches no later branch.
C16_AlertBranchReturns ==
    (obs.op = "_psychology_fallback" /\ obs.alerts # <<>>
        /\ \A i \in 1..Len(obs.alerts) : obs.alerts[i] \in EmittedAlerts)
    => \E tag \in {CRISIS_ATTENTION_LOST, CRISIS_ENGAGEMENT_DROP, CRISIS_STRESS_SPIKE} :
            AnsweredByAlert(tag)

\* the only alert is the one matched through its lower-cased text, for a snapshot
\* and a history that the trend branch would answer
C16_Witness ==
    /\ obs.op = "_psychology_fallback"
    /\ obs.alerts = <<ALERT_HIGH_STRESS>>
    /\ obs.history = <<H_KEEN, H_FLAT, H_FLAT>>
    /\ obs.current = Snap("neutral", "medium", 50, 50)
    /\ AnsweredByAlert(CRISIS_STRESS_SPIKE)

\* C17: with a non-empty alerts list the dispatch follows a fixed priority, whatever
\* the order of the list: attention_lost if any alert is attention lost; else
\* engagement_drop if any is engagement dropping or very low engagement; else
\* stress_spike if any is stress spiking or high stress.
C17_AlertPriority ==
    (obs.op = "_psychology_fallback" /\ obs.alerts # <<>>) =>
        IF Passed({ALERT_ATTENTION_LOST})
            THEN AnsweredByAlert(CRISIS_ATTENTION_LOST)
        ELSE IF Passed({ALERT_ENGAGEMENT_DROPPING, ALERT_VERY_LOW_ENGAGEMENT})
            THEN AnsweredByAlert(CRISIS_ENGAGEMENT_DROP)
        ELSE IF Passed({ALERT_STRESS_SPIKING, ALERT_HIGH_STRESS})
            THEN AnsweredByAlert(CRISIS_STRESS_SPIKE)
        ELSE TRUE

\* the attention alert comes last in the list, after a stress and an engagement alert
C17_Witness ==
    /\ obs.op = "_psychology_fallback"
    /\ obs.alerts = <<ALERT_HIGH_STRESS, ALERT_ENGAGEMENT_DROPPING, ALERT_ATTENTION_LOST>>
    /\ AnsweredByAlert(CRISIS_ATTENTION_LOST)
(***************************************************************************)
(* _psychology_fallback called up to MaxCalls times in a row from the      *)
(* state at import, the observer keeping the two calls before the last.    *)
(***************************************************************************)
MaxCalls == 4

TwinInputs ==
    { <<S_EXACT, <<>>, <<>>>>, <<S_FUZZY, <<>>, <<>>>>, <<S_FLOW, <<>>, <<>>>>,
      <<S_DEFAULT, <<>>, <<>>>>,
      <<S_EXACT, <<H_KEEN, H_FLAT, H_FLAT>>, <<>>>>,
      <<S_ENG_LOW, <<H_FLAT, H_FLAT>>, <<ALERT_VERY_LOW_ENGAGEMENT>>>> }

InitTwin ==
    /\ InitGlobals
    /\ obs = NoCall

\* what the observer keeps of a call: the arguments, the state before, the text
Brief(o) ==
    IF o.op = "none" THEN NoCall
    ELSE [ op |-> "call", current |-> o.current, history |-> o.history,
           alerts |-> o.alerts, before |-> o.before, ret |-> o.ret ]

CallAgain(current, history, alerts) ==
    /\ IF obs.op = "none" THEN TRUE ELSE obs.calls < MaxCalls
    /\ \E r \in {_psychology_fallback(current, history, alerts,
                                      _last_key, _key_hit_counts, _default_idx)} :
        /\ _last_key' = r.last_key
        /\ _key_hit_counts' = r.hit_counts
        /\ _default_idx' = r.default_idx
        /\ obs' = [ op |-> "_psychology_fallback",
                    calls |-> IF obs.op = "none" THEN 1 ELSE obs.calls + 1,
                    current |-> current, history |-> history, alerts |-> alerts,
                    before |-> [last_key |-> _last_key, hit_counts |-> _key_hit_counts,
                                default_idx |-> _default_idx],
                    ret |-> r.ret, branch |-> r.branch,
                    prev |-> Brief(obs),
                    prev2 |-> IF obs.op = "none" THEN NoCall ELSE obs.prev ]
        /\ UNCHANGED <<state_memory, LLM_PROVIDER, requests>>

NextTwin == \E in \in TwinInputs : CallAgain(in[1], in[2], in[3])

SpecTwin == InitTwin /\ [][NextTwin]_vars

\* the earlier call p had the arguments and the RotationState (the last key and the
\* hit counters) of the last call
SameArgsAndRotation(p) ==
    /\ p.op = "call"
    /\ p.current = obs.current /\ p.history = obs.history /\ p.alerts = obs.alerts
    /\ p.before.last_key = obs.before.last_key
    /\ p.before.hit_counts = obs.before.hit_counts

PastAlertsAndTrend ==
    /\ obs.op = "_psychology_fallback"
    /\ obs.alerts = <<>>
    /\ TrendCalls(obs.current, obs.history) = <<>>

\* the TacticKey of the snapshot of the call with the given attention and stress zone
KeyOf(attention, s_zone) ==
    <<obs.current.emotion, attention, s_zone, _zone(obs.current.engagement_score)>>

\* the text returned is a variant of the key's entry
VariantOf(key) == \E v \in 1..Len(TACTICS[key]) : obs.ret = TACTICS[key][v]

\* C19: with no alerts, no trend match, attention not low, stress <= 65 and
\* engagement >= 30, and neither the exact key nor any fuzzy key in the catalog, a
\* snapshot with engagement > 70 and stress < 35 gets the fixed flow-state message,
\* whatever the rotation state before the call.
C19_FlowMessage ==
    (PastAlertsAndTrend
        /\ obs.current.attention # "low"
        /\ obs.current.stress_score <= 65 /\ obs.current.engagement_score >= 30
        /\ KeyOf(obs.current.attention, _zone(obs.current.stress_score)) \notin DOMAIN TACTICS
        /\ LET fuzzy == FuzzyKeys(obs.current.emotion, obs.current.attention,
                                  _zone(obs.current.stress_score),
                                  _zone(obs.current.engagement_score))
           IN  \A i \in 1..Len(fuzzy) : fuzzy[i] \notin DOMAIN TACTICS
        /\ obs.current.engagement_score > 70 /\ obs.current.stress_score < 35)
    => (obs.ret = FLOW_MESSAGE /\ _default_idx = obs.before.default_idx)

\* engagement 71 and stress 34, from a rotation state left by calls for another key
C19_Witness ==
    /\ obs.op = "_psychology_fallback"
    /\ obs.current = Snap("angry", "medium", 71, 34)
    /\ obs.alerts = <<>> /\ obs.history = <<>>
    /\ obs.before.last_key = K_PRESENT /\ obs.before.default_idx = 7
    /\ obs.branch = "flow"
    /\ obs.ret = FLOW_MESSAGE

\* the override looked up key and returned its variant, or, the key not being in the
\* catalog, went on to the crisis tag and returned a variant of that
LookedUpThen(key, tag) ==
    IF key \in DOMAIN TACTICS
    THEN obs.probes = <<key>> /\ obs.key = key /\ VariantOf(key)
    ELSE obs.probes = <<key, tag>> /\ obs.key = tag /\ VariantOf(tag)

\* C20: with no alert and no trend match the hard overrides are tried in the order
\* attention == low, stress > 65, engagement < 30: low attention looks up (emotion,
\* low, stressZone, engagementZone) and falls back to attention_lost; stress > 65
\* looks up (emotion, attention, high, engagementZone) and falls back to
\* stress_spike; engagement < 30 returns engagement_drop without a lookup.
C20_OverrideOrder ==
    PastAlertsAndTrend =>
        IF obs.current.attention = "low"
            THEN LookedUpThen(KeyOf("low", _zone(obs.current.stress_score)),
                              CRISIS_ATTENTION_LOST)
        ELSE IF obs.current.stress_score > 65
            THEN LookedUpThen(KeyOf(obs.current.attention, "high"), CRISIS_STRESS_SPIKE)
        ELSE IF obs.current.engagement_score < 30
            THEN /\ obs.probes = <<CRISIS_ENGAGEMENT_DROP>>
                 /\ obs.key = CRISIS_ENGAGEMENT_DROP
                 /\ VariantOf(CRISIS_ENGAGEMENT_DROP)
        ELSE TRUE

\* fearful, low attention, stress 85, engagement 20, two earlier snapshots: the key
\* (fearful, low, high, low) is looked up and answers
C20_Witness ==
    /\ obs.op = "_psychology_fallback"
    /\ obs.current = Snap("fearful", "low", 20, 85)
    /\ obs.history = <<H_FLAT, H_FLAT>> /\ obs.alerts = <<>>
    /\ obs.probes = << <<"fearful", "low", "high", "low">> >>
    /\ obs.branch = "override"

(***************************************************************************)
(* Trend detection (reasoning.py 421-431), restated from the entry three   *)
(* back and the last three entries of the history the call was given.      *)
(***************************************************************************)
ThreeBack == obs.history[Len(obs.history) - 2]

WindowEmotions ==
    {obs.history[i].emotion : i \in (Len(obs.history) - 2)..Len(obs.history)}
        \cup {obs.current.emotion}

TrendAnswers(tag) ==
    obs.branch = "trend" /\ obs.key = tag /\ obs.probes = <<tag>> /\ VariantOf(tag)

\* no trend tag was selected: the call went on to the hard overrides and beyond
PastTrend == obs.branch \notin {"alert", "trend"}

\* C21: with no alerts, trend detection runs only on a history of at least 3
\* entries and compares with the entry three back: engagement more than 15 below
\* it gives engagement_drop; otherwise stress more than 15 above it gives
\* stress_spike; otherwise 3 or more distinct emotions among the last 3 entries and
\* the current one give inconsistency; otherwise, and on every shorter history, no
\* trend tag is selected and the call goes on to the hard overrides.
C21_TrendDetection ==
    (obs.op = "_psychology_fallback" /\ obs.alerts = <<>>) =>
        IF Len(obs.history) < 3
            THEN PastTrend
        ELSE IF obs.current.engagement_score < ThreeBack.engagement_score - 15
            THEN TrendAnswers(CRISIS_ENGAGEMENT_DROP)
        ELSE IF obs.current.stress_score > ThreeBack.stress_score + 15
            THEN TrendAnswers(CRISIS_STRESS_SPIKE)
        ELSE IF Cardinality(WindowEmotions) >= 3
            THEN TrendAnswers(CRISIS_INCONSISTENCY)
        ELSE PastTrend

\* four entries, the one three back 60 above the current engagement and the oldest
\* not: engagement_drop is selected by the trend branch
C21_Witness ==
    /\ obs.op = "_psychology_fallback" /\ obs.alerts = <<>>
    /\ obs.history = <<H_FLAT, H_KEEN, H_FLAT, H_FLAT>>
    /\ obs.current = Snap("neutral", "medium", 35, 20)
    /\ obs.branch = "trend" /\ obs.key = CRISIS_ENGAGEMENT_DROP

\* exactly 15 away from the entry three back on both scores: no trend
C21_EdgeReached ==
    /\ obs.op = "_psychology_fallback" /\ obs.alerts = <<>>
    /\ obs.history = <<H_EDGE, H_FLAT, H_FLAT>>
    /\ obs.current = Snap("neutral", "medium", 35, 20)
    /\ obs.branch = "exact"

(***************************************************************************)
(* The catalog lookup (reasoning.py 452-469): the seven keys in the order  *)
(* they are handed to _get_tactic.                                         *)
(***************************************************************************)
LookupOrder ==
    LET e == obs.current.emotion
        a == obs.current.attention
        s == _zone(obs.current.stress_score)
        g == _zone(obs.current.engagement_score)
    IN  << <<e, a, s, g>>, <<e, a, "mid", g>>, <<e, a, s, "mid">>, <<e, a, "mid", "mid">>,
           <<e, "medium", s, g>>, <<e, "medium", "mid", g>>, <<e, "medium", "mid", "mid">> >>

\* no alert, no trend and no hard override applied to the call
PastOverrides ==
    /\ PastAlertsAndTrend
    /\ obs.current.attention # "low"
    /\ obs.current.stress_score <= 65
    /\ obs.current.engagement_score >= 30

\* the position in LookupOrder of the first key the catalog holds, 0 when none
FirstPresent ==
    IF \E i \in 1..7 : LookupOrder[i] \in DOMAIN TACTICS
    THEN CHOOSE i \in 1..7 :
            /\ LookupOrder[i] \in DOMAIN TACTICS
            /\ \A j \in 1..(i - 1) : LookupOrder[j] \notin DOMAIN TACTICS
    ELSE 0

\* C22: when no alert, trend or hard override applies, the call returns the entry
\* of the first key the catalog holds in the order exact key, (emotion, attention,
\* mid, engagementZone), (emotion, attention, stressZone, mid), (emotion, attention,
\* mid, mid), (emotion, medium, stressZone, engagementZone), (emotion, medium, mid,
\* engagementZone), (emotion, medium, mid, mid); the keys before it were tried in
\* that order and every key tried carries the snapshot's emotion.
C22_LookupOrder ==
    PastOverrides =>
        /\ \A i \in 1..Len(obs.probes) : obs.probes[i][1] = obs.current.emotion
        /\ IF FirstPresent = 0
           THEN obs.branch \in {"flow", "default"} /\ obs.probes = LookupOrder
           ELSE /\ obs.key = LookupOrder[FirstPresent]
                /\ VariantOf(LookupOrder[FirstPresent])
                /\ obs.probes = SubSeq(LookupOrder, 1, FirstPresent)

\* the answer comes from the seventh key, attention and both zones relaxed
C22_Witness ==
    /\ PastOverrides
    /\ FirstPresent = 7
    /\ obs.current.attention = "high"
    /\ obs.key = <<obs.current.emotion, "medium", "mid", "mid">>
    /\ obs.branch = "fuzzy"

(***************************************************************************)
(* The hit counters kept by _get_tactic (reasoning.py 157-170).            *)
(***************************************************************************)
\* C23: in sequential operation, after any sequence of rotation steps at most one
\* key has a hit counter and that key is the last key: no other key has one, and
\* before the first step there is none at all.
C23_SingleCounter ==
    /\ \A k \in DOMAIN _key_hit_counts : k = _last_key /\ _key_hit_counts[k] >= 1
    /\ (_last_key = NoneKey) => (_key_hit_counts = EmptyDict)
    /\ (obs.op = "_get_tactic") => (DOMAIN _key_hit_counts = {_last_key})

\* a run of five calls with one key, then a call with a key the catalog lacks, then
\* a call with a third key: the third key's counter is the only one
C23_Witness ==
    /\ obs.op = "_get_tactic"
    /\ obs.key = <<"__attention_lost__">> /\ obs.n = 1
    /\ obs.runs = << <<K_PRESENT, 5>>, <<K_MISSING, 1>> >>
    /\ _last_key = <<"__attention_lost__">>
    /\ _key_hit_counts = (<<"__attention_lost__">> :> 1)

(***************************************************************************)
(* analyze, one request after the other: every request runs from its first *)
(* line to its response before the next one is submitted.  Intake is the   *)
(* part of the handler up to the hand-over to the worker thread (main.py   *)
(* 141-187), Answer the worker thread's get_agent_advice and the response  *)
(* (main.py 183-202).                                                      *)
(***************************************************************************)
MaxFeed == 6

\* surprised, otherwise as IN_CALM: scores close to those of IN_CALM and IN_DRIFT
IN_AWED ==
    [ vision |-> [emotion |-> "surprised", confidence |-> 65, posture |-> "neutral",
                  attention |-> "medium", movement |-> "moderate",
                  head_tilt |-> "centered"],
      audio |-> EmptyDict ]

\* labels outside the enums: the emotion as the face library names it, and audio
\* features the client made up
IN_FEAR ==
    [ vision |-> [emotion |-> "fear", confidence |-> 90, posture |-> "neutral",
                  attention |-> "medium", movement |-> "moderate",
                  head_tilt |-> "centered"],
      audio |-> [speech_speed |-> "rapid", pauses |-> "many",
                 tone_indicator |-> "tense"] ]

FeedInputs == {IN_CALM, IN_DRIFT, IN_AWED, IN_FEAR, IN_LOST}

InitFeed ==
    /\ InitGlobals
    /\ obs = NoCall

Intake(in) ==
    /\ req["r1"].pc = "idle"
    /\ appends < MaxFeed
    /\ \E current_state \in {CurrentState(in.vision, analyze_audio_features(in.audio),
                                          appends + 1, "s1")} :
       \E alerts \in {detect_alerts(current_state, state_memory)} :
       \E memory \in {AppendAndEvict(state_memory, current_state)} :
        /\ state_memory' = memory
        /\ req' = [req EXCEPT !["r1"] =
                    [ pc |-> "advice", session |-> "s1",
                      current_state |-> current_state, alerts |-> alerts,
                      window |-> state_memory,
                      history |-> AllButLast(memory) ]]
    /\ appends' = appends + 1
    /\ UNCHANGED <<_last_key, _key_hit_counts, _default_idx, LLM_PROVIDER, obs, ready,
                   running, rot_owner>>

\* the observer's record of one request: what the selector was handed, the store as
\* it was before the request (window) and when the selector started (memory), the
\* rotation state before the selector, and what the selector did
FeedObs(r, sel) ==
    [ op |-> "analyze",
      current |-> req["r1"].current_state, history |-> req["r1"].history,
      alerts |-> req["r1"].alerts, window |-> req["r1"].window,
      memory |-> state_memory,
      before |-> [last_key |-> _last_key, hit_counts |-> _key_hit_counts,
                  default_idx |-> _default_idx],
      ret |-> r.ret, branch |-> sel.branch, key |-> sel.key, probes |-> sel.probes ]

Answer ==
    /\ req["r1"].pc = "advice"
    /\ \E llm \in ServiceOutcomes(LLM_PROVIDER) :
       \E r \in {get_agent_advice(req["r1"].current_state, req["r1"].history,
                                  req["r1"].alerts, LLM_PROVIDER, llm,
                                  _last_key, _key_hit_counts, _default_idx)} :
       \E sel \in {_psychology_fallback(req["r1"].current_state, req["r1"].history,
                                        req["r1"].alerts,
                                        _last_key, _key_hit_counts, _default_idx)} :
        /\ _last_key' = r.last_key
        /\ _key_hit_counts' = r.hit_counts
        /\ _default_idx' = r.default_idx
        /\ obs' = FeedObs(r, sel)
    /\ req' = [req EXCEPT !["r1"] = Idle]
    /\ UNCHANGED <<state_memory, LLM_PROVIDER, ready, running, appends, rot_owner>>

NextFeed ==
    \/ \E in \in FeedInputs : Intake(in)
    \/ Answer

SpecFeed == InitFeed /\ [][NextFeed]_vars

\* the request was answered and the next one has not started
Answered == obs.op = "analyze" /\ req["r1"].pc = "idle"

\* C24 as stated: a select call changes no state other than the last key and the hit
\* counters: the snapshot (the newest entry of the store), the history (the entries
\* before it), the alerts, the store, the provider and the default-pool index are
\* as they were before the call.
C24_OnlyRotationState ==
    Answered =>
        /\ state_memory = obs.memory
        /\ obs.current = state_memory[Len(state_memory)]
        /\ obs.history = AllButLast(state_memory)
        /\ LLM_PROVIDER = "fallback"
        /\ _default_idx = obs.before.default_idx

\* C24: a select call changes no state other than the last key, the hit counters
\* and the default-pool index, which advances by one exactly when the call is
\* answered from the default pool: the snapshot, the history, the alerts, the store
\* and the provider are as they were before the call.
C24_RotationStateAndIndex ==
    Answered =>
        /\ state_memory = obs.memory
        /\ obs.current = state_memory[Len(state_memory)]
        /\ obs.history = AllButLast(state_memory)
        /\ LLM_PROVIDER = "fallback"
        /\ _default_idx = obs.before.default_idx + (IF obs.branch = "default" THEN 1 ELSE 0)

\* the third request is answered from the default pool with two snapshots of
\* history: the store is untouched and the index went from 0 to 1
C24_Witness ==
    /\ Answered
    /\ Len(obs.history) = 2 /\ Len(state_memory) = 3
    /\ obs.branch = "default"
    /\ obs.before.default_idx = 0 /\ _default_idx = 1
    /\ _last_key # obs.before.last_key

(***************************************************************************)
(* The rotating default (reasoning.py 386-397, 479-482) over sequences of  *)
(* selector calls from the import state.                                   *)
(***************************************************************************)
POOL_SIZE == 8

\* C25: the k-th selector call that ends in the generic default returns entry
\* (k-1) mod 8 of the default pool; the pool index advances by exactly one on each
\* such call and on no other call, whatever the last key and the hit counters are.
C25_DefaultRotation ==
    (obs.op = "_psychology_fallback") =>
        /\ Len(_default_pool) = POOL_SIZE
        /\ _default_idx = obs.defaults
        /\ obs.branch = "default" =>
               obs.ret = _default_pool[((obs.defaults - 1) % POOL_SIZE) + 1]

\* the ninth call that ends in the default pool, after a call answered from the
\* catalog: the pool starts over with its first text
C25_Witness ==
    /\ obs.op = "_psychology_fallback"
    /\ obs.branch = "default" /\ obs.defaults = 9
    /\ obs.before.last_key = K_PRESENT
    /\ obs.before.default_idx = 8 /\ _default_idx = 9
    /\ obs.ret = _default_pool[1]

\* C26: in the pipeline, where the selector's alerts are those detect_alerts
\* produced, the inconsistency tag is never selected by the alert branch: it is
\* selected by trend detection only, so only with an empty alerts list and a
\* history of at least 3 entries; and no alert detect_alerts produces reaches the
\* test for "Inconsistent".
C26_InconsistencyByTrendOnly ==
    (obs.op = "analyze") =>
        /\ obs.alerts = detect_alerts(obs.current, obs.window)
        /\ \A i \in 1..Len(obs.alerts) : ~IsInconsistencyAlert(obs.alerts[i])
        /\ obs.alerts # <<>> =>
              obs.branch = "alert" /\ obs.key # CRISIS_INCONSISTENCY
        /\ \A i \in 1..Len(obs.probes) :
              obs.probes[i] = CRISIS_INCONSISTENCY =>
                  /\ obs.branch = "trend"
                  /\ obs.alerts = <<>>
                  /\ Len(obs.history) >= 3

\* neutral, neutral, happy, then surprised with scores close to theirs: no alert,
\* three distinct emotions, and the inconsistency tag answers
C26_Witness ==
    /\ obs.op = "analyze"
    /\ Len(obs.history) = 3
    /\ obs.history[2].emotion = "neutral" /\ obs.history[3].emotion = "happy"
    /\ obs.current.emotion = "surprised"
    /\ obs.alerts = <<>>
    /\ obs.branch = "trend" /\ obs.key = CRISIS_INCONSISTENCY
    /\ obs.ret = TACTICS[CRISIS_INCONSISTENCY][1]

(***************************************************************************)
(* The documented score tables: baseline plus one weight per categorical   *)
(* value, written out to compare compute_scores with.                      *)
(***************************************************************************)
TableEngagement ==
    [ attention |-> [high |-> 30, medium |-> 10, low |-> -20],
      emotion   |-> [happy |-> 15, surprised |-> 10, neutral |-> 0, sad |-> -10,
                     angry |-> -5, disgusted |-> -15, fearful |-> -10],
      posture   |-> [upright |-> 10, leaning_forward |-> 15, neutral |-> 0,
                     slouched |-> -15],
      speech    |-> [fast |-> -5, normal |-> 5, slow |-> 0, silent |-> -10] ]

TableStress ==
    [ emotion  |-> [fearful |-> 40, angry |-> 35, disgusted |-> 25, sad |-> 20,
                    surprised |-> 15, neutral |-> 5, happy |-> -10],
      tone     |-> [stressed |-> 25, calm |-> -10, neutral |-> 0, excited |-> 10],
      pauses   |-> [frequent |-> 15, minimal |-> 0, none |-> 5],
      movement |-> [restless |-> 20, moderate |-> 5, still |-> -5] ]

TableConfidence ==
    [ posture |-> [upright |-> 20, leaning_forward |-> 15, neutral |-> 0,
                   slouched |-> -20],
      emotion |-> [happy |-> 15, neutral |-> 5, surprised |-> -5, angry |-> -10,
                   fearful |-> -25, sad |-> -15, disgusted |-> -10],
      speech  |-> [fast |-> -5, normal |-> 10, slow |-> -5, silent |-> -15] ]

ClampTo100(x) == IF x < 0 THEN 0 ELSE IF x > 100 THEN 100 ELSE x

\* the arguments of the call are all within their enums
ValidCall ==
    /\ obs.op = "compute_scores"
    /\ obs.vision_signals.emotion \in EMOTIONS
    /\ obs.vision_signals.attention \in ATTENTIONS
    /\ obs.vision_signals.posture \in POSTURES
    /\ obs.vision_signals.movement \in MOVEMENTS
    /\ obs.audio_signals.speech_speed \in valid_speeds
    /\ obs.audio_signals.pauses \in valid_pauses
    /\ obs.audio_signals.tone_indicator \in valid_tones

\* C27: for every combination of valid enum values each score compute_scores
\* returns is the clamp to [0,100] of its baseline (engagement 50, stress 20,
\* confidence 50) plus the documented weights of the given values, confidence
\* taking half of the engagement attention weight; the clamp is the last step and
\* nothing is rounded (twice the confidence is the clamp of the doubled sum).
C27_ScoreFormulas ==
    ValidCall =>
        LET v == obs.vision_signals
            a == obs.audio_signals
        IN  /\ obs.ret.engagement =
                 ClampTo100(50 + TableEngagement.attention[v.attention]
                               + TableEngagement.emotion[v.emotion]
                               + TableEngagement.posture[v.posture]
                               + TableEngagement.speech[a.speech_speed])
            /\ obs.ret.stress =
                 ClampTo100(20 + TableStress.emotion[v.emotion]
                               + TableStress.tone[a.tone_indicator]
                               + TableStress.pauses[a.pauses]
                               + TableStress.movement[v.movement])
            /\ LET doubled == 100 + TableEngagement.attention[v.attention]
                                  + 2 * TableConfidence.posture[v.posture]
                                  + 2 * TableConfidence.emotion[v.emotion]
                                  + 2 * TableConfidence.speech[a.speech_speed]
               IN  2 * obs.ret.confidence =
                       IF doubled < 0 THEN 0 ELSE IF doubled > 200 THEN 200 ELSE doubled

\* high attention, sad, slouched, slow, frequent pauses, tone stressed, restless:
\* engagement 50 + 30 - 10 - 15 + 0 = 55, stress 20 + 20 + 25 + 15 + 20 = 100,
\* confidence 50 + 15 - 20 - 15 - 5 = 25
C27_Witness ==
    /\ ValidCall
    /\ obs.vision_signals = [emotion |-> "sad", attention |-> "high",
                             posture |-> "slouched", movement |-> "restless"]
    /\ obs.audio_signals = [speech_speed |-> "slow", pauses |-> "frequent",
                            tone_indicator |-> "stressed"]
    /\ obs.ret = [engagement |-> 55, stress |-> 100, confidence |-> 25]

(***************************************************************************)
(* compute_scores on arguments outside the enums: each field holds a value *)
(* of its enum, a label the enum lacks, or is absent from the dict.        *)
(***************************************************************************)
ABSENT == "<absent>"

Field(k, v) == IF v = ABSENT THEN EmptyDict ELSE (k :> v)

OddVisions ==
    { Field("emotion", e) @@ Field("attention", a) @@ Field("posture", p)
        @@ Field("movement", m) :
        e \in {"neutral", "happy", "fear", ABSENT},
        a \in {"medium", "high", "none", ABSENT},
        p \in {"neutral", "upright", "standing", ABSENT},
        m \in {"moderate", "jittery", ABSENT} }

OddAudios ==
    { Field("speech_speed", sp) @@ Field("pauses", pa) @@ Field("tone_indicator", t) :
        sp \in {"normal", "rapid", ABSENT},
        pa \in {"minimal", "many", ABSENT},
        t \in {"neutral", "tense", ABSENT} }

NextOdd ==
    /\ obs.op = "none"
    /\ \E v \in OddVisions, a \in OddAudios : ScoreOnce(v, a)

SpecOdd == InitScores /\ [][NextOdd]_vars

\* the value the call was given for a field, ABSENT when the dict lacks the key
Given(signals, k) == IF k \in DOMAIN signals THEN signals[k] ELSE ABSENT

\* the weight of a field: the table's for a value of the enum, the default's for
\* an absent field, zero for any other value
WeightOf(table, value, default) ==
    IF value = ABSENT THEN table[default]
    ELSE IF value \in DOMAIN table THEN table[value]
    ELSE 0

\* the weight of a field when a value outside the enum is taken for the default
WeightAsDefault(table, value, default) ==
    IF value \in DOMAIN table THEN table[value] ELSE table[default]

\* C28 as stated: a value outside the enum is treated as the field's documented
\* default (emotion neutral, attention medium, posture neutral, movement moderate,
\* speech normal, pauses minimal, tone neutral): the scores are those of the call
\* with the defaults in its place.
C28_TreatedAsDefault ==
    obs.op = "compute_scores" =>
        LET v == obs.vision_signals
            a == obs.audio_signals
        IN  /\ obs.ret.engagement =
                 ClampTo100(50
                    + WeightAsDefault(TableEngagement.attention, Given(v, "attention"), "medium")
                    + WeightAsDefault(TableEngagement.emotion, Given(v, "emotion"), "neutral")
                    + WeightAsDefault(TableEngagement.posture, Given(v, "posture"), "neutral")
                    + WeightAsDefault(TableEngagement.speech, Given(a, "speech_speed"), "normal"))
            /\ obs.ret.stress =
                 ClampTo100(20
                    + WeightAsDefault(TableStress.emotion, Given(v, "emotion"), "neutral")
                    + WeightAsDefault(TableStress.tone, Given(a, "tone_indicator"), "neutral")
                    + WeightAsDefault(TableStress.pauses, Given(a, "pauses"), "minimal")
                    + WeightAsDefault(TableStress.movement, Given(v, "movement"), "moderate"))
            /\ obs.ret.confidence =
                 ClampTo100(50
                    + (WeightAsDefault(TableEngagement.attention, Given(v, "attention"), "medium")
                            \div 2)
                    + WeightAsDefault(TableConfidence.posture, Given(v, "posture"), "neutral")
                    + WeightAsDefault(TableConfidence.emotion, Given(v, "emotion"), "neutral")
                    + WeightAsDefault(TableConfidence.speech, Given(a, "speech_speed"), "normal"))

\* C28: compute_scores is total over unrecognized input: a value outside the enum
\* contributes zero weight to every score (which is the default's weight for
\* posture, pauses and tone only), and an absent field is scored as its documented
\* default.
C28_ZeroWeight ==
    obs.op = "compute_scores" =>
        LET v == obs.vision_signals
            a == obs.audio_signals
        IN  /\ obs.ret.engagement =
                 ClampTo100(50
                    + WeightOf(TableEngagement.attention, Given(v, "attention"), "medium")
                    + WeightOf(TableEngagement.emotion, Given(v, "emotion"), "neutral")
                    + WeightOf(TableEngagement.posture, Given(v, "posture"), "neutral")
                    + WeightOf(TableEngagement.speech, Given(a, "speech_speed"), "normal"))
            /\ obs.ret.stress =
                 ClampTo100(20
                    + WeightOf(TableStress.emotion, Given(v, "emotion"), "neutral")
                    + WeightOf(TableStress.tone, Given(a, "tone_indicator"), "neutral")
                    + WeightOf(TableStress.pauses, Given(a, "pauses"), "minimal")
                    + WeightOf(TableStress.movement, Given(v, "movement"), "moderate"))
            /\ obs.ret.confidence =
                 ClampTo100(50
                    + (WeightOf(TableEngagement.attention, Given(v, "attention"), "medium")
                            \div 2)
                    + WeightOf(TableConfidence.posture, Given(v, "posture"), "neutral")
                    + WeightOf(TableConfidence.emotion, Given(v, "emotion"), "neutral")
                    + WeightOf(TableConfidence.speech, Given(a, "speech_speed"), "normal"))

\* every field holds a label its enum lacks: the three baselines come back, where
\* the defaults would give 65, 30 and 70
C28_Witness ==
    /\ obs.op = "compute_scores"
    /\ obs.vision_signals = [emotion |-> "fear", attention |-> "none",
                             posture |-> "standing", movement |-> "jittery"]
    /\ obs.audio_signals = [speech_speed |-> "rapid", pauses |-> "many",
                            tone_indicator |-> "tense"]
    /\ obs.ret = [engagement |-> 50, stress |-> 20, confidence |-> 50]

(***************************************************************************)
(* The categorical fields of the snapshots analyze stores (main.py         *)
(* 156-171): the audio features pass through analyze_audio_features, the   *)
(* four vision fields are copied from what analyze_frame returned.         *)
(***************************************************************************)
InEnums(snapshot) ==
    /\ snapshot.emotion \in EMOTIONS
    /\ snapshot.attention \in ATTENTIONS
    /\ snapshot.posture \in POSTURES
    /\ snapshot.movement \in MOVEMENTS
    /\ snapshot.audio.speech_speed \in valid_speeds
    /\ snapshot.audio.pauses \in valid_pauses
    /\ snapshot.audio.tone_indicator \in valid_tones

\* C29: every categorical field of a snapshot that analyze scores and stores is a
\* member of its enum: values outside the enums that come from the perception and
\* the audio input are replaced by the documented default before the engine sees
\* them.
C29_SnapshotsInEnums ==
    /\ \A i \in 1..Len(state_memory) : InEnums(state_memory[i])
    /\ req["r1"].pc = "advice" => InEnums(req["r1"].current_state)

\* the audio half holds: the stored audio features are within their enums
C29_AudioInEnums ==
    \A i \in 1..Len(state_memory) :
        /\ state_memory[i].audio.speech_speed \in valid_speeds
        /\ state_memory[i].audio.pauses \in valid_pauses
        /\ state_memory[i].audio.tone_indicator \in valid_tones

(***************************************************************************)
(* _zone on every whole score from 0 to 100 (reasoning.py 181-186), and    *)
(* the hard override on stress (reasoning.py 442) for a snapshot with that *)
(* stress score, medium attention and engagement 50.                       *)
(***************************************************************************)
ZoneValues == 0..100

ZoneOnce(val) ==
    /\ obs' = [ op |-> "_zone", val |-> val, ret |-> _zone(val),
                override |-> OverrideCalls(Snap("neutral", "medium", 50, val)) # <<>> ]
    /\ UNCHANGED <<state_memory, _last_key, _key_hit_counts, _default_idx, LLM_PROVIDER,
                   requests>>

\* one call per behaviour
NextZone ==
    /\ obs.op = "none"
    /\ \E val \in ZoneValues : ZoneOnce(val)

SpecZone == InitScores /\ [][NextZone]_vars

\* C30: the zone of a score is low below 35, high above 65 and mid otherwise, so 35
\* and 65 are mid; the zone of the stress score is high exactly when the
\* hard-override condition stress > 65 holds.
C30_Zones ==
    obs.op = "_zone" =>
        /\ obs.ret = (IF obs.val < 35 THEN "low" ELSE IF obs.val > 65 THEN "high" ELSE "mid")
        /\ obs.val \in {35, 65} => obs.ret = "mid"
        /\ (obs.ret = "high") <=> obs.override
        /\ (obs.ret = "high") <=> (obs.val > 65)

\* the upper threshold itself: mid, and no override
C30_Witness ==
    /\ obs.op = "_zone"
    /\ obs.val = 65
    /\ obs.ret = "mid"
    /\ ~obs.override

(***************************************************************************)
(* detect_alerts inside analyze (main.py 174): the call is between its     *)
(* alert detection and its append while pc = "detected".                   *)
(***************************************************************************)
\* C31: detect_alerts has no side effect: when it has returned, the history store
\* is the one it was called with and the current snapshot is the one it was given
\* (it is appended as it is right after), and evaluating it again with the same
\* arguments gives the same list.
C31_DetectIsPure ==
    \A s \in Slots :
        /\ req[s].pc = "detected" =>
              /\ state_memory = req[s].window
              /\ req[s].alerts = detect_alerts(req[s].current_state, state_memory)
        /\ req[s].pc = "appended" =>
              /\ state_memory[Len(state_memory)] = req[s].current_state
              /\ AllButLast(state_memory) =
                    (IF Len(req[s].window) = MEMORY_CAPACITY
                     THEN Tail(req[s].window) ELSE req[s].window)

\* a request that raised alerts on a store of three snapshots and did not append
\* yet: the store is as it was
C31_Witness ==
    \E s \in Slots :
        /\ req[s].pc = "detected"
        /\ Len(req[s].window) = 3
        /\ req[s].alerts # <<>>
        /\ state_memory = req[s].window

LastThree(list) ==
    IF Len(list) <= 3 THEN list ELSE SubSeq(list, Len(list) - 2, Len(list))

\* C33: for every analyze call the history handed to the selector is the
\* pre-append history, minus its oldest entry when the store was already full, so
\* at most 4 entries; its last min(3, n) entries are those of the window the alert
\* detector used, it has at least 3 entries exactly when the pre-append history
\* had, and the selector's trend decision on it is the one on the whole pre-append
\* history.
C33_SelectorHistory ==
    obs.op = "analyze" =>
        /\ obs.history = (IF Len(obs.window) = 5 THEN Tail(obs.window) ELSE obs.window)
        /\ Len(obs.history) <= 4
        /\ LastThree(obs.history) = LastThree(obs.window)
        /\ (Len(obs.history) >= 3) <=> (Len(obs.window) >= 3)
        /\ TrendCalls(obs.current, obs.history) = TrendCalls(obs.current, obs.window)
        /\ obs.alerts = <<>> =>
              (obs.branch = "trend") = (TrendCalls(obs.current, obs.window) # <<>>)

\* the sixth request: the store was full, the selector got its four newest entries
\* and answered by trend
C33_Witness ==
    /\ obs.op = "analyze"
    /\ Len(obs.window) = 5 /\ Len(obs.history) = 4
    /\ obs.history = Tail(obs.window)
    /\ obs.alerts = <<>>
    /\ obs.branch = "trend"

(***************************************************************************)
(* The section of analyze between `await vision_task` and the await of the *)
(* worker thread (main.py 156-187) under interleaved requests.  A          *)
(* suspension point is a state with running = "none".                      *)
(***************************************************************************)
InSection(s) == req[s].pc \in {"detected", "appended"}

\* where the slot stands in the event loop's queue, 0 when it is not in it
QueuePosition(s) ==
    IF \E i \in 1..Len(ready) : ready[i] = s
    THEN CHOOSE i \in 1..Len(ready) : ready[i] = s
    ELSE 0

\* at every suspension point no call is inside the section and the store holds at
\* most 5 entries; the store holds the latest appends, one entry each, in the
\* order of their append; no call's window or history holds the call's snapshot
SectionIsAtomic ==
    /\ running = "none" =>
          /\ \A s \in Slots : ~InSection(s)
          /\ Len(state_memory) <= 5
    /\ running # "none" =>
          /\ InSection(running)
          /\ \A s \in Slots \ {running} : ~InSection(s)
    /\ \A i \in 1..Len(state_memory) :
          state_memory[i].id = appends - Len(state_memory) + i
    /\ \A s \in Slots :
          /\ req[s].pc = "detected" =>
                req[s].current_state.id = appends + 1 /\ ~Holds(req[s].window, s)
          /\ req[s].pc = "appended" =>
                req[s].current_state.id = appends /\ ~Holds(req[s].window, s)
          /\ req[s].pc \in {"advice", "advised"} =>
                req[s].current_state.id <= appends /\ ~Holds(req[s].history, s)

\* the call that enters the section is, of the calls whose frame analysis is
\* done, the one whose analysis was done first
EntersInCompletionOrder ==
    \A s \in Slots :
        (req[s].pc = "vision_done" /\ req'[s].pc = "detected") =>
            \A t \in Slots \ {s} :
                req[t].pc = "vision_done" => QueuePosition(s) < QueuePosition(t)

\* C34: under any interleaving of analyze requests, alert detection, append/evict
\* and the copy of the selector's history of one request run with no suspension
\* point between them: at every suspension point the store holds at most 5
\* entries, each request's snapshot is appended exactly once, the store's order is
\* the order in which the frame analyses completed, and no request's alert window
\* or selector history contains its own snapshot.
C34_AtomicSection == [](SectionIsAtomic) /\ [][EntersInCompletionOrder]_vars

\* one request is suspended in its worker thread while another, resumed after it,
\* is inside the section on a full store
C34_Witness ==
    /\ running = "r2" /\ req["r2"].pc = "detected"
    /\ req["r1"].pc = "advice"
    /\ Len(state_memory) = 5
    /\ state_memory[5] = req["r1"].current_state
    /\ req["r2"].window = state_memory

(***************************************************************************)
(* analyze, one request after the other, on inputs with low attention and  *)
(* with engagement below 30: which branch of the selector answers them.    *)
(***************************************************************************)
\* disgusted, slouched, silent, attention medium: engagement 20, stress 50
IN_DULL ==
    [ vision |-> [emotion |-> "disgusted", confidence |-> 60, posture |-> "slouched",
                  attention |-> "medium", movement |-> "moderate",
                  head_tilt |-> "down"],
      audio |-> [speech_speed |-> "silent", pauses |-> "minimal",
                 tone_indicator |-> "neutral"] ]

DropInputs == {IN_CALM, IN_DRIFT, IN_LOST, IN_DULL}

NextDrop ==
    \/ \E in \in DropInputs : Intake(in)
    \/ Answer

SpecDrop == InitFeed /\ [][NextDrop]_vars

\* the text returned is a variant of the tag's entry, selected by the alert branch
AlertAnswers(tag) ==
    /\ obs.branch = "alert" /\ obs.key = tag /\ obs.probes = <<tag>>
    /\ \E v \in 1..Len(TACTICS[tag]) : obs.ret = TACTICS[tag][v]

\* C35: in the pipeline, once the pre-append history has at least 2 entries, a
\* snapshot with attention low always gets a variant of attention_lost and a
\* snapshot with engagement < 30 always gets a crisis-tag variant from the alert
\* branch; the hard overrides for attention == low and for engagement < 30, and
\* every catalog key with attention low, are reached for the first two snapshots
\* only.
C35_AlertsShadowOverrides ==
    obs.op = "analyze" =>
        /\ (Len(obs.window) >= 2 /\ obs.current.attention = "low")
              => AlertAnswers(CRISIS_ATTENTION_LOST)
        /\ (Len(obs.window) >= 2 /\ obs.current.engagement_score < 30)
              => (AlertAnswers(CRISIS_ATTENTION_LOST) \/ AlertAnswers(CRISIS_ENGAGEMENT_DROP))
        /\ (obs.branch \in {"override", "override_fallback"}
                /\ obs.current.attention = "low")
              => (Len(obs.window) < 2 /\ obs.current.id <= 2)
        /\ (obs.branch = "override" /\ obs.key = CRISIS_ENGAGEMENT_DROP)
              => (Len(obs.window) < 2 /\ obs.current.id <= 2)
        /\ \A i \in 1..Len(obs.probes) :
              (Len(obs.probes[i]) = 4 /\ obs.probes[i][2] = "low")
                  => (Len(obs.window) < 2 /\ obs.current.id <= 2)

\* the third request, attention medium and engagement 20: the alert branch answers
\* with engagement_drop, where the first two requests took the hard override
C35_Witness ==
    /\ obs.op = "analyze"
    /\ Len(obs.window) = 2
    /\ obs.current.attention = "medium" /\ obs.current.engagement_score = 20
    /\ obs.branch = "alert" /\ obs.key = CRISIS_ENGAGEMENT_DROP
    /\ obs.before.last_key = CRISIS_ENGAGEMENT_DROP

\* the override side: the second request, attention low, is answered from the
\* catalog key (fearful, low, high, low)
C35_OverrideReached ==
    /\ obs.op = "analyze"
    /\ Len(obs.window) = 1
    /\ obs.branch = "override"
    /\ obs.key = <<"fearful", "low", "high", "low">>

(***************************************************************************)
(* The selector on scored snapshots: every combination of enum values is   *)
(* scored by compute_scores (main.py 160-171) and handed to the selector   *)
(* with a history and the alerts detect_alerts raises on that history.     *)
(***************************************************************************)
\* no history, and three entries against which a snapshot of high engagement and
\* low stress shows neither an alert nor a trend
ScoredHistories == { <<>>, <<H_FLAT, H_FLAT, H_FLAT>> }

ScoredSelectOnce(vision_signals, audio_signals, history) ==
    \E current \in {CurrentState(vision_signals, audio_signals, 1, "s1")} :
    \E alerts \in {detect_alerts(current, history)} :
    \E r \in {_psychology_fallback(current, history, alerts,
                                   _last_key, _key_hit_counts, _default_idx)} :
        /\ _last_key' = r.last_key
        /\ _key_hit_counts' = r.hit_counts
        /\ _default_idx' = r.default_idx
        /\ obs' = [ op |-> "select_scored", vision_signals |-> vision_signals,
                    audio_signals |-> audio_signals,
                    current |-> current, history |-> history, alerts |-> alerts,
                    ret |-> r.ret, branch |-> r.branch, key |-> r.key,
                    probes |-> r.probes ]
        /\ UNCHANGED <<state_memory, LLM_PROVIDER, requests>>

\* one call per behaviour
NextScored ==
    /\ obs.op = "none"
    /\ \E in \in ScoreInputs, history \in ScoredHistories :
          ScoredSelectOnce(in[1], in[2], history)

SpecScored == InitScores /\ [][NextScored]_vars

\* C36: with the shipped catalog, a snapshot whose categorical values are within
\* their enums and whose scores are those compute_scores derives from them never
\* gets the flow-state message: with engagement > 70 and stress < 35 it is
\* answered by an earlier branch (alert, trend, override, exact or fuzzy lookup).
C36_FlowUnreachable ==
    obs.op = "select_scored" =>
        /\ obs.ret # FLOW_MESSAGE
        /\ obs.branch # "flow"
        /\ (obs.current.engagement_score > 70 /\ obs.current.stress_score < 35) =>
              /\ obs.branch \in {"alert", "trend", "override", "override_fallback",
                                 "exact", "fuzzy"}
              /\ obs.key \in DOMAIN TACTICS

\* sad, attention high, neutral posture, still, calm tone: engagement 75 and stress
\* 25, no alert and no trend; six keys miss and the last fuzzy key answers
C36_Witness ==
    /\ obs.op = "select_scored"
    /\ obs.vision_signals = [emotion |-> "sad", attention |-> "high",
                             posture |-> "neutral", movement |-> "still"]
    /\ obs.current.engagement_score = 75 /\ obs.current.stress_score = 25
    /\ obs.alerts = <<>> /\ obs.history = <<>>
    /\ Len(obs.probes) = 7
    /\ obs.branch = "fuzzy" /\ obs.key = <<"sad", "medium", "mid", "mid">>

====
